---- MODULE Spec2Model ----
(***************************************************************************)
(* Substrate account/delegation controller and node client of              *)
(* airgap-coin-lib, as state machines.                                     *)
(*                                                                         *)
(* The controller's queries are asynchronous functions of the chain state  *)
(* they fetch through the node client.  Each query is one action: its      *)
(* inputs (the outcome of every fetch it makes and its own parameters) are *)
(* drawn by the initial predicate of its specification and the action      *)
(* computes what the query settles with.  The node client's send/initApi   *)
(* are modelled step by step, one action per synchronous run of code       *)
(* between two suspension points of the JavaScript event loop.             *)
(***************************************************************************)
EXTENDS Integers, Sequences, FiniteSets, Bags, TLC

VARIABLES
    pc,       \* position of the controller query: "call" before, "done" after
    args,     \* the query's parameters and the outcome of each of its fetches
    result    \* what the query settled with (Resolved(v) or Rejected(e))

\* The node client and its environment
VARIABLES
    now,         \* the clock (Date.now()), in milliseconds
    cache,       \* the Cache: expirationTime, in-flight promises and values by key
    client,      \* the fields metadata, runtimeVersion and initApiPromise
    init,        \* the promises and the executor of initApi
    sends,       \* by owner: the position of its send, its key and its request
    rpcs,        \* by owner: the state of the HTTP request it posted
    rpcLog,      \* the HTTP requests posted: a bag of [key, by]
    microtasks,  \* the queued catch callbacks of cache.get, in order
    tasks,       \* by task: the method called, its position and its result
    runtime      \* the node's runtime: its spec version, the tasks not yet
                 \* started when it last changed

nodeVars ==
    <<now, cache, client, init, sends, rpcs, rpcLog, microtasks, tasks, runtime>>

vars == <<pc, args, result, nodeVars>>

(***************************************************************************)
(* Values.  A fetched fragment is Some(v), None (the node has no value:    *)
(* the client returns null) or Failed (the fetch rejected).  A query       *)
(* settles with Resolved(v) or Rejected(error).  A value that may be       *)
(* undefined is Defined(v) or undefined, so that a field left undefined is *)
(* visible in a result.                                                    *)
(***************************************************************************)
Some(v) == [tag |-> "some", v |-> v]
None == [tag |-> "none"]
Failed == [tag |-> "fail"]
Resolved(v) == [tag |-> "resolved", v |-> v]
Rejected(e) == [tag |-> "rejected", error |-> e]
Pending == [tag |-> "pending"]
undefined == [tag |-> "undefined"]
Defined(v) == [tag |-> "defined", v |-> v]

IsSome(x) == x.tag = "some"
IsNone(x) == x.tag = "none"
IsFailed(x) == x.tag = "fail"

\* The controller's queries are checked on their own: no client is running.
NoClient ==
    /\ now = 0 /\ cache = None /\ client = None /\ init = None /\ sends = None
    /\ rpcs = None /\ rpcLog = EmptyBag /\ microtasks = <<>> /\ tasks = None
    /\ runtime = None

\* Array helpers
Range(s) == {s[i] : i \in 1..Len(s)}
Includes(s, x) == \E i \in 1..Len(s) : s[i] = x
SeqsUpTo(S, n) == UNION {[1..k -> S] : k \in 0..n}

RECURSIVE SumSeq(_)
SumSeq(s) == IF s = <<>> THEN 0 ELSE s[1] + SumSeq(Tail(s))

(***************************************************************************)
(* Bounds of the balance inputs.                                           *)
(***************************************************************************)
MaxBalance == 3
MaxDeposit == 2

(***************************************************************************)
(* getTransferableBalance (SubstrateAccountController.ts:58-83).           *)
(* accountInfo and existentialDeposit are the outcomes of getAccountInfo   *)
(* and getExistentialDeposit; the deposit is fetched only when             *)
(* excludeExistentialDeposit is set.  A BigNumber is always truthy, so     *)
(* `minBalance || 0' is 0 only for the null of the unfetched deposit.      *)
(***************************************************************************)
getTransferableBalanceClamped(accountInfo, existentialDeposit, excludeExistentialDeposit, ignoreFees) ==
    IF IsFailed(accountInfo) \/ (excludeExistentialDeposit /\ IsFailed(existentialDeposit))
    THEN Rejected("fetch failed")
    ELSE IF IsNone(accountInfo) THEN Resolved(0)
    ELSE LET d == accountInfo.v.free - accountInfo.v.reserved
                  - (IF ignoreFees THEN accountInfo.v.miscFrozen ELSE accountInfo.v.feeFrozen)
                  - (IF excludeExistentialDeposit THEN existentialDeposit.v ELSE 0)
         IN Resolved(IF d < 0 THEN 0 ELSE d)

getTransferableBalance(accountInfo, existentialDeposit, excludeExistentialDeposit, ignoreFees) ==
    IF IsFailed(accountInfo) \/ (excludeExistentialDeposit /\ IsFailed(existentialDeposit))
    THEN Rejected("fetch failed")
    ELSE LET minBalance == IF excludeExistentialDeposit THEN existentialDeposit ELSE None
         IN IF ~IsSome(accountInfo)
            THEN Resolved(0)
            ELSE LET free == accountInfo.v.free
                     reserved == accountInfo.v.reserved
                     locked == IF ignoreFees THEN accountInfo.v.miscFrozen
                                             ELSE accountInfo.v.feeFrozen
                 IN Resolved(free - reserved - locked
                               - (IF IsSome(minBalance) THEN minBalance.v ELSE 0))

\* The balances an account record is drawn from: 0..MaxBalance and the
\* 1000 of the documented example.
Balances == (0..MaxBalance) \cup {1000}
AccountInfos ==
    [free : Balances, reserved : 0..MaxBalance, miscFrozen : 0..MaxBalance,
     feeFrozen : 0..MaxBalance]

BalanceArgs ==
    [op : {"getTransferableBalance"},
     accountInfo : {Failed, None} \cup {Some(a) : a \in AccountInfos},
     existentialDeposit : {Failed} \cup {Some(d) : d \in 0..MaxDeposit},
     excludeExistentialDeposit : BOOLEAN,
     ignoreFees : BOOLEAN]

InitBalance ==
    /\ pc = "call"
    /\ args \in BalanceArgs
    /\ result = Pending
    /\ NoClient

CallGetTransferableBalance ==
    /\ pc = "call"
    /\ args.op = "getTransferableBalance"
    /\ result' = getTransferableBalance(args.accountInfo, args.existentialDeposit,
                                        args.excludeExistentialDeposit, args.ignoreFees)
    /\ pc' = "done"
    /\ UNCHANGED <<args, nodeVars>>

NextBalance == CallGetTransferableBalance

SpecBalance == InitBalance /\ [][NextBalance]_vars

\* C2: for an account whose account info exists, the transferable balance is
\* free - reserved - locked - (existentialDeposit if excluded), locked being
\* miscFrozen when ignoreFees and feeFrozen otherwise; it is not clamped, a
\* negative difference is returned as such; free=1000, reserved=0,
\* miscFrozen=0, deposit=1, both flags set gives 999.
TransferableBalanceFormula ==
    (pc = "done" /\ args.op = "getTransferableBalance" /\ IsSome(args.accountInfo)
       /\ result.tag = "resolved")
    => /\ result.v + args.accountInfo.v.reserved
            + (IF args.excludeExistentialDeposit THEN args.existentialDeposit.v ELSE 0)
            + (IF args.ignoreFees THEN args.accountInfo.v.miscFrozen
                                  ELSE args.accountInfo.v.feeFrozen)
          = args.accountInfo.v.free
       /\ (args.accountInfo.v.free = 1000 /\ args.accountInfo.v.reserved = 0
           /\ args.accountInfo.v.miscFrozen = 0 /\ args.existentialDeposit = Some(1)
           /\ args.excludeExistentialDeposit /\ args.ignoreFees) => result.v = 999

\* A call that returned a negative balance for an existing account.
TransferableBalanceNegativeReached ==
    /\ pc = "done" /\ args.op = "getTransferableBalance"
    /\ IsSome(args.accountInfo)
    /\ result.tag = "resolved" /\ result.v < 0
    /\ ~args.ignoreFees /\ args.excludeExistentialDeposit

(***************************************************************************)
(* Staking action eligibility.                                             *)
(***************************************************************************)
\* Members of the SubstrateStakingActionType enum in declaration order; the
\* ordinal of a member is its index here minus one.
SubstrateStakingActionType ==
    << "BOND_NOMINATE", "REBOND_NOMINATE", "NOMINATE", "CANCEL_NOMINATION",
       "CHANGE_NOMINATION", "UNBOND", "REBOND", "BOND_EXTRA", "REBOND_EXTRA",
       "WITHDRAW_UNBONDED", "CHANGE_REWARD_DESTINATION", "CHANGE_CONTROLLER" >>

Ordinal(type) ==
    (CHOOSE i \in 1..Len(SubstrateStakingActionType) : SubstrateStakingActionType[i] = type) - 1

\* Array.prototype.sort((a, b) => a.type - b.type): a stable sort by ordinal.
RECURSIVE InsertByType(_, _)
InsertByType(sorted, a) ==
    IF sorted = <<>> THEN <<a>>
    ELSE IF Ordinal(a.type) - Ordinal(sorted[Len(sorted)].type) >= 0
         THEN Append(sorted, a)
         ELSE Append(InsertByType(SubSeq(sorted, 1, Len(sorted) - 1), a), sorted[Len(sorted)])

RECURSIVE SortByType(_)
SortByType(actions) ==
    IF actions = <<>> THEN <<>>
    ELSE InsertByType(SortByType(SubSeq(actions, 1, Len(actions) - 1)), actions[Len(actions)])

Action(type, argNames) == [type |-> type, args |-> argNames]
PushIf(cond, list, items) == IF cond THEN list \o items ELSE list

\* Bounds of the eligibility inputs.
MaxTargets == 2
MaxDelegation == 3

Validators == {"V1", "V2"}

\* electionStatus !== SubstrateElectionStatus.OPEN, the status being undefined
\* when the node has no EraElectionStatus (lines 514-515).
isElectionClosedWrongMember(electionStatus) ==
    ~(IsSome(electionStatus) /\ electionStatus.v = "CLOSED")

isElectionClosedOf(electionStatus) ==
    ~(IsSome(electionStatus) /\ electionStatus.v = "OPEN")

\* The condition of line 519 without `!isBonded'.
mayBondNominateWhenBonded(maxDelegationValue, minBondingValue, isBonded, isUnbonding, isElectionClosed) ==
    maxDelegationValue > minBondingValue.v /\ ~isUnbonding /\ isElectionClosed

\* The condition of line 519 with `gte' in place of `gt'.
mayBondNominateAtMinimum(maxDelegationValue, minBondingValue, isBonded, isUnbonding, isElectionClosed) ==
    maxDelegationValue >= minBondingValue.v /\ ~isBonded /\ ~isUnbonding /\ isElectionClosed

\* maxDelegationValue.gt(minBondingValue) && !isBonded && !isUnbonding &&
\* isElectionClosed (line 519)
mayBondNominate(maxDelegationValue, minBondingValue, isBonded, isUnbonding, isElectionClosed) ==
    maxDelegationValue > minBondingValue.v /\ ~isBonded /\ ~isUnbonding /\ isElectionClosed

\* The condition of line 533 without `!isUnbonding'.
mayNominateUnbondWhileUnbonding(isBonded, isDelegating, isUnbonding, isElectionClosed) ==
    isBonded /\ ~isDelegating /\ isElectionClosed

\* isBonded && !isDelegating && !isUnbonding && isElectionClosed (line 533)
mayNominateUnbond(isBonded, isDelegating, isUnbonding, isElectionClosed) ==
    isBonded /\ ~isDelegating /\ ~isUnbonding /\ isElectionClosed

\* isUnbonding && !isDelegating && isElectionClosed (line 546)
mayRebondNominate(isUnbonding, isDelegating, isElectionClosed) ==
    isUnbonding /\ ~isDelegating /\ isElectionClosed

\* The condition of line 553 without `isDelegating'.
mayRebondExtraAlways(isUnbonding, isDelegating, isElectionClosed) ==
    isUnbonding /\ isElectionClosed

\* isUnbonding && isDelegating && isElectionClosed (line 553)
mayRebondExtra(isUnbonding, isDelegating, isElectionClosed) ==
    isUnbonding /\ isDelegating /\ isElectionClosed

\* The condition of line 577 without `hasFundsToWithdraw'.
mayWithdrawUnbondedAlways(hasFundsToWithdraw, isElectionClosed) == isElectionClosed

\* hasFundsToWithdraw && isElectionClosed (line 577)
mayWithdrawUnbonded(hasFundsToWithdraw, isElectionClosed) ==
    hasFundsToWithdraw /\ isElectionClosed

(***************************************************************************)
(* getAvailableStakingActions (SubstrateAccountController.ts:496-587).     *)
(* stakingDetails: None or Some of the details record, of which active,    *)
(* locked and unlocked are read.  nominations: None or Some([targets]).    *)
(* minBondingValue and electionStatus are the outcomes of                  *)
(* getExistentialDeposit and getElectionStatus; a failed fetch rejects the *)
(* call.  The value is the list of pushes, in push order, before the sort. *)
(***************************************************************************)
availableActionsPushed(stakingDetails, nominations, validatorIds, maxDelegationValue, minBondingValue, electionStatus) ==
    LET currentValidators == IF IsSome(nominations) THEN nominations.v.targets ELSE <<>>
        validatorAddresses == validatorIds
        isBonded == (IF IsSome(stakingDetails) THEN stakingDetails.v.active ELSE 0) > 0
        isDelegating == ~IsNone(nominations)
        isUnbonding == IsSome(stakingDetails) /\ Len(stakingDetails.v.locked) > 0
        minDelegationValue == 1
        isElectionClosed == isElectionClosedOf(electionStatus)
        hasFundsToWithdraw == (IF IsSome(stakingDetails) THEN stakingDetails.v.unlocked ELSE 0) > 0
        a1 == PushIf(mayBondNominate(maxDelegationValue, minBondingValue, isBonded,
                                     isUnbonding, isElectionClosed),
                     <<>>,
                     << Action("BOND_NOMINATE", <<"targets", "controller", "value", "payee">>) >>)
        a2 == PushIf(maxDelegationValue > minDelegationValue /\ isBonded /\ ~isUnbonding
                       /\ isElectionClosed,
                     a1, << Action("BOND_EXTRA", <<"value">>) >>)
        a3 == PushIf(mayNominateUnbond(isBonded, isDelegating, isUnbonding, isElectionClosed),
                     a2, << Action("NOMINATE", <<"targets">>), Action("UNBOND", <<"value">>) >>)
        a4 == PushIf(mayRebondNominate(isUnbonding, isDelegating, isElectionClosed),
                     a3, << Action("REBOND_NOMINATE", <<"targets", "value">>) >>)
        a5 == PushIf(mayRebondExtra(isUnbonding, isDelegating, isElectionClosed),
                     a4, << Action("REBOND_EXTRA", <<"value">>) >>)
        a6 == IF isDelegating /\ isElectionClosed
              THEN IF /\ \A i \in 1..Len(validatorAddresses) :
                           Includes(currentValidators, validatorAddresses[i])
                      /\ Len(validatorAddresses) = Len(currentValidators)
                   THEN a5 \o << Action("CANCEL_NOMINATION", <<"value">>) >>
                   ELSE IF Len(validatorAddresses) > 0
                        THEN a5 \o << Action("CHANGE_NOMINATION", <<"targets">>) >>
                        ELSE a5
              ELSE a5
        a7 == PushIf(mayWithdrawUnbonded(hasFundsToWithdraw, isElectionClosed),
                     a6, << Action("WITHDRAW_UNBONDED", <<>>) >>)
    IN a7

\* getAvailableStakingActions without the sort of line 584.
getAvailableStakingActionsUnsorted(stakingDetails, nominations, validatorIds, maxDelegationValue, minBondingValue, electionStatus) ==
    IF IsFailed(minBondingValue) \/ IsFailed(electionStatus)
    THEN Rejected("fetch failed")
    ELSE Resolved(availableActionsPushed(stakingDetails, nominations, validatorIds,
                                         maxDelegationValue, minBondingValue, electionStatus))

getAvailableStakingActions(stakingDetails, nominations, validatorIds, maxDelegationValue, minBondingValue, electionStatus) ==
    IF IsFailed(minBondingValue) \/ IsFailed(electionStatus)
    THEN Rejected("fetch failed")
    ELSE Resolved(SortByType(availableActionsPushed(stakingDetails, nominations, validatorIds,
                                 maxDelegationValue, minBondingValue, electionStatus)))

\* Staking details as getAvailableStakingActions reads them: the active
\* stake, the still-locked unlocking chunks and the unlocked total.
StakingDetailsDomain ==
    [active : 0..1, locked : {<<>>, << [value |-> 1, expectedUnlock |-> 1] >>}, unlocked : 0..1]

ActionsArgs ==
    [op : {"getAvailableStakingActions"},
     stakingDetails : {None} \cup {Some(d) : d \in StakingDetailsDomain},
     nominations : {None} \cup {Some([targets |-> t]) : t \in SeqsUpTo(Validators, MaxTargets)},
     validatorIds : SeqsUpTo(Validators, MaxTargets),
     maxDelegationValue : (-1)..MaxDelegation,
     minBondingValue : {Failed, Some(1), Some(2)},
     electionStatus : {Failed, None, Some("CLOSED"), Some("OPEN")}]

InitActions ==
    /\ pc = "call"
    /\ args \in ActionsArgs
    /\ result = Pending
    /\ NoClient

CallGetAvailableStakingActions ==
    /\ pc = "call"
    /\ args.op = "getAvailableStakingActions"
    /\ result' = getAvailableStakingActions(args.stakingDetails, args.nominations,
                     args.validatorIds, args.maxDelegationValue, args.minBondingValue,
                     args.electionStatus)
    /\ pc' = "done"
    /\ UNCHANGED <<args, nodeVars>>

NextActions == CallGetAvailableStakingActions

SpecActions == InitActions /\ [][NextActions]_vars

\* C1: whenever the election status is OPEN, getAvailableStakingActions
\* returns an empty list, whatever the bonded / nominating / unbonding /
\* withdrawable state, the balance and the requested validators are.
ElectionOpenNoActions ==
    (pc = "done" /\ args.op = "getAvailableStakingActions"
       /\ args.electionStatus = Some("OPEN") /\ result.tag = "resolved")
    => result.v = <<>>

\* An open election met by an account that would otherwise be offered
\* BOND_EXTRA and WITHDRAW_UNBONDED.
ElectionOpenReached ==
    /\ pc = "done" /\ args.op = "getAvailableStakingActions"
    /\ args.electionStatus = Some("OPEN") /\ result.tag = "resolved"
    /\ IsSome(args.stakingDetails) /\ args.stakingDetails.v.active > 0
    /\ args.stakingDetails.v.unlocked > 0 /\ args.stakingDetails.v.locked = <<>>
    /\ args.maxDelegationValue > 1

\* C17: the list getAvailableStakingActions returns is sorted in
\* non-decreasing order of the ordinal of the action type.
ActionsSortedByOrdinal ==
    (pc = "done" /\ args.op = "getAvailableStakingActions" /\ result.tag = "resolved")
    => \A i \in 1..Len(result.v) : \A j \in i..Len(result.v) :
           Ordinal(result.v[i].type) <= Ordinal(result.v[j].type)

\* A call whose pushes were not in the order of the ordinals: BOND_EXTRA
\* was pushed before NOMINATE and UNBOND, and is returned after them.
ActionsReorderedReached ==
    /\ pc = "done" /\ args.op = "getAvailableStakingActions"
    /\ result.tag = "resolved"
    /\ Len(result.v) = 3
    /\ result.v[1].type = "NOMINATE" /\ result.v[2].type = "UNBOND"
    /\ result.v[3].type = "BOND_EXTRA"
    /\ result.v # availableActionsPushed(args.stakingDetails, args.nominations,
                      args.validatorIds, args.maxDelegationValue, args.minBondingValue,
                      args.electionStatus)

\* The types of the actions a resolved call offers.
OfferedTypes == {result.v[i].type : i \in 1..Len(result.v)}

\* A call has resolved for a nominating account with the election closed.
NominatingElectionClosed ==
    /\ pc = "done" /\ args.op = "getAvailableStakingActions" /\ result.tag = "resolved"
    /\ IsSome(args.nominations)
    /\ isElectionClosedOf(args.electionStatus)

\* C18 as stated: with the election closed and the account nominating,
\* CANCEL_NOMINATION is offered exactly when the set of the requested
\* targets is a superset of the current nomination targets and has the
\* size of the current target list, duplicates in the requested list
\* included.
CancelNominationIffSupersetSameSize ==
    NominatingElectionClosed
    => ("CANCEL_NOMINATION" \in OfferedTypes
        <=> /\ Range(args.nominations.v.targets) \subseteq Range(args.validatorIds)
            /\ Cardinality(Range(args.validatorIds)) = Len(args.nominations.v.targets))

\* C19 as stated: with the election closed and the account nominating,
\* CHANGE_NOMINATION is offered exactly when the set of the requested
\* targets is not empty and is not the set of the current targets.
ChangeNominationIffDifferentSet ==
    NominatingElectionClosed
    => ("CHANGE_NOMINATION" \in OfferedTypes
        <=> /\ Range(args.validatorIds) # {}
            /\ Range(args.validatorIds) # Range(args.nominations.v.targets))

\* C20: with the election closed, BOND_NOMINATE is offered if and only if
\* the account is not bonded (no staking details, or an active stake of 0),
\* is not unbonding (no still-locked unlocking chunk) and its transferable
\* balance (maxDelegationValue) is strictly greater than the minimum bond
\* (the existential deposit).
BondNominateIffFreeAndFunded ==
    (pc = "done" /\ args.op = "getAvailableStakingActions" /\ result.tag = "resolved"
       /\ args.electionStatus # Some("OPEN"))
    => ("BOND_NOMINATE" \in OfferedTypes
        <=> /\ IsNone(args.stakingDetails) \/ args.stakingDetails.v.active = 0
            /\ IsNone(args.stakingDetails) \/ args.stakingDetails.v.locked = <<>>
            /\ args.maxDelegationValue > args.minBondingValue.v)

\* BOND_NOMINATE is offered to an account whose ledger has no active stake
\* and no locked chunk and whose balance exceeds the deposit by one unit.
BondNominateOfferedReached ==
    /\ pc = "done" /\ args.op = "getAvailableStakingActions" /\ result.tag = "resolved"
    /\ args.electionStatus = Some("CLOSED")
    /\ IsSome(args.stakingDetails) /\ args.stakingDetails.v.active = 0
    /\ args.stakingDetails.v.locked = <<>>
    /\ args.maxDelegationValue = args.minBondingValue.v + 1
    /\ "BOND_NOMINATE" \in OfferedTypes

\* C21: with the election closed, NOMINATE and UNBOND are offered exactly
\* when the account is bonded, has no nominations and is not unbonding, and
\* the one is never offered without the other.
NominateUnbondTogether ==
    (pc = "done" /\ args.op = "getAvailableStakingActions" /\ result.tag = "resolved"
       /\ args.electionStatus # Some("OPEN"))
    => /\ "NOMINATE" \in OfferedTypes <=> "UNBOND" \in OfferedTypes
       /\ "NOMINATE" \in OfferedTypes
          <=> /\ IsSome(args.stakingDetails) /\ args.stakingDetails.v.active > 0
              /\ IsNone(args.nominations)
              /\ args.stakingDetails.v.locked = <<>>

\* NOMINATE and UNBOND are offered to a bonded account without nominations
\* and without locked chunks.
NominateUnbondOfferedReached ==
    /\ pc = "done" /\ args.op = "getAvailableStakingActions" /\ result.tag = "resolved"
    /\ args.electionStatus = Some("CLOSED")
    /\ IsSome(args.stakingDetails) /\ args.stakingDetails.v.active > 0
    /\ args.stakingDetails.v.locked = <<>>
    /\ IsNone(args.nominations)
    /\ {"NOMINATE", "UNBOND"} \subseteq OfferedTypes

\* C22: with the election closed, an unbonding account (one with a locked
\* chunk) is offered REBOND_NOMINATE when it has no nominations and
\* REBOND_EXTRA when it is nominating, never both, and an account that is
\* not unbonding is offered neither.
RebondExactlyOne ==
    (pc = "done" /\ args.op = "getAvailableStakingActions" /\ result.tag = "resolved"
       /\ args.electionStatus # Some("OPEN"))
    => IF IsSome(args.stakingDetails) /\ args.stakingDetails.v.locked # <<>>
       THEN /\ "REBOND_NOMINATE" \in OfferedTypes <=> IsNone(args.nominations)
            /\ "REBOND_EXTRA" \in OfferedTypes <=> IsSome(args.nominations)
       ELSE /\ "REBOND_NOMINATE" \notin OfferedTypes
            /\ "REBOND_EXTRA" \notin OfferedTypes

\* An unbonding account without nominations is offered REBOND_NOMINATE and
\* not REBOND_EXTRA.
RebondNominateOfferedReached ==
    /\ pc = "done" /\ args.op = "getAvailableStakingActions" /\ result.tag = "resolved"
    /\ args.electionStatus = Some("CLOSED")
    /\ IsSome(args.stakingDetails) /\ args.stakingDetails.v.locked # <<>>
    /\ IsNone(args.nominations)
    /\ "REBOND_NOMINATE" \in OfferedTypes
    /\ "REBOND_EXTRA" \notin OfferedTypes

\* C27: in a list returned by getAvailableStakingActions no action type
\* appears twice, and at most one of BOND_NOMINATE and BOND_EXTRA, of
\* REBOND_NOMINATE and REBOND_EXTRA, and of CANCEL_NOMINATION and
\* CHANGE_NOMINATION is offered.
ActionTypesUniqueAndExclusive ==
    (pc = "done" /\ args.op = "getAvailableStakingActions" /\ result.tag = "resolved")
    => /\ Cardinality(OfferedTypes) = Len(result.v)
       /\ ~({"BOND_NOMINATE", "BOND_EXTRA"} \subseteq OfferedTypes)
       /\ ~({"REBOND_NOMINATE", "REBOND_EXTRA"} \subseteq OfferedTypes)
       /\ ~({"CANCEL_NOMINATION", "CHANGE_NOMINATION"} \subseteq OfferedTypes)

\* A bonded, nominating account with withdrawable funds is offered three
\* actions, one of them BOND_EXTRA.
ThreeDistinctActionsReached ==
    /\ pc = "done" /\ args.op = "getAvailableStakingActions" /\ result.tag = "resolved"
    /\ Len(result.v) = 3
    /\ OfferedTypes = {"BOND_EXTRA", "CHANGE_NOMINATION", "WITHDRAW_UNBONDED"}

(***************************************************************************)
(* Nomination status.                                                      *)
(***************************************************************************)
\* The literal of `exposure.others.elements.length > 256' and `position > 256'.
MAX_NOMINATORS == 256

\* Bound: the longest exposure list drawn.
MaxExposure == 300

\* exposure.others.elements.sort((a, b) => b.value - a.value).map(address)
\*   .indexOf(nominator): the 0-based index of the nominator's entry after a
\* stable sort by descending stake, which is the number of entries the sort
\* places before it (those with a greater stake, and those with an equal
\* stake that precede it in the list).
IndexAfterSort(elements, who) ==
    LET k == CHOOSE i \in 1..Len(elements) : elements[i].who = who
    IN Cardinality({i \in 1..Len(elements) :
                      \/ elements[i].value > elements[k].value
                      \/ elements[i].value = elements[k].value /\ i < k})

(***************************************************************************)
(* getNominationStatus (SubstrateAccountController.ts:201-246).            *)
(* era: Some(index) when the caller passes one, None otherwise; activeEra, *)
(* nominations and exposure are the outcomes of getActiveEraInfo,          *)
(* getNominations(nominator) and getValidatorExposure(eraIndex, validator).*)
(***************************************************************************)
getNominationStatus(nominator, validator, era, activeEra, nominations, exposure) ==
    IF IsNone(era) /\ IsFailed(activeEra) THEN Rejected("fetch failed")
    ELSE IF IsNone(era) /\ IsNone(activeEra) THEN Rejected("Could not fetch active era")
    ELSE IF IsFailed(nominations) THEN Rejected("fetch failed")
    ELSE IF IsNone(nominations) \/ ~Includes(nominations.v.targets, validator)
         THEN Resolved(undefined)
    ELSE IF IsFailed(exposure) THEN Rejected("fetch failed")
    ELSE IF ~IsSome(exposure) THEN Resolved(Defined("INACTIVE"))
    ELSE LET elements == exposure.v.others
             isActive == \E i \in 1..Len(elements) : elements[i].who = nominator
             isOversubscribed == Len(elements) > MAX_NOMINATORS
         IN IF ~isActive THEN Resolved(Defined("INACTIVE"))
            ELSE IF isOversubscribed /\ IndexAfterSort(elements, nominator) > MAX_NOMINATORS
                 THEN Resolved(Defined("OVERSUBSCRIBED"))
                 ELSE Resolved(Defined("ACTIVE"))

\* Exposure lists: n entries, nominator i at list index i, with stakes
\* descending, ascending or all equal along the list.
StakePatterns == {"desc", "asc", "flat"}
StakeAt(pattern, i, n) ==
    CASE pattern = "desc" -> n - i + 1
      [] pattern = "asc" -> i
      [] pattern = "flat" -> 1

ExposureOthers(n, pattern) == [i \in 1..n |-> [who |-> i, value |-> StakeAt(pattern, i, n)]]

ExposureSizes ==
    {0, 1, 2, MAX_NOMINATORS - 1, MAX_NOMINATORS, MAX_NOMINATORS + 1, MAX_NOMINATORS + 2,
     MaxExposure}

\* The nominators asked about: list indices around the limit, the ends of
\* the list, and one (n + 1) that is not in the list.
NominatorsOf(n) ==
    {1, 2, 100, MAX_NOMINATORS - 1, MAX_NOMINATORS, MAX_NOMINATORS + 1, MAX_NOMINATORS + 2,
     n - 1, n, n + 1} \cap (1..(n + 1))

StatusArgs ==
    LET exposed ==
          UNION {[nominator : NominatorsOf(n),
                  exposure : {Some([others |-> ExposureOthers(n, p)]) : p \in StakePatterns}]
                 : n \in ExposureSizes}
        unexposed == [nominator : {1}, exposure : {Failed, None}]
    IN {[op |-> "getNominationStatus", nominator |-> x.nominator, validator |-> "V1",
         era |-> e[1], activeEra |-> e[2], nominations |-> t, exposure |-> x.exposure]
        : x \in exposed \cup unexposed,
          e \in {<<Some(5), None>>, <<None, Some([index |-> 5])>>, <<None, None>>,
                 <<None, Failed>>},
          t \in {Failed, None, Some([targets |-> <<"V1">>]), Some([targets |-> <<"V2">>]),
                 Some([targets |-> <<"V2", "V1">>])}}

InitStatus ==
    /\ pc = "call"
    /\ args \in StatusArgs
    /\ result = Pending
    /\ NoClient

CallGetNominationStatus ==
    /\ pc = "call"
    /\ args.op = "getNominationStatus"
    /\ result' = getNominationStatus(args.nominator, args.validator, args.era, args.activeEra,
                                     args.nominations, args.exposure)
    /\ pc' = "done"
    /\ UNCHANGED <<args, nodeVars>>

NextStatus == CallGetNominationStatus

SpecStatus == InitStatus /\ [][NextStatus]_vars

\* The 1-based rank of the nominator by descending stake in an exposure list
\* that contains it.
RankByStake(elements, who) ==
    LET k == CHOOSE i \in 1..Len(elements) : elements[i].who = who
    IN 1 + Cardinality({i \in 1..Len(elements) :
                          \/ elements[i].value > elements[k].value
                          \/ elements[i].value = elements[k].value /\ i < k})

\* C3: for a nominator that nominates the validator, the status is INACTIVE
\* when the validator has no exposure or the nominator is not in the exposure
\* list, OVERSUBSCRIBED when the list has more than 256 entries and the
\* nominator's 1-based rank by descending stake is greater than 256 (the
\* 257th of 300 is OVERSUBSCRIBED), and ACTIVE otherwise.
NominationStatusByRank ==
    (/\ pc = "done" /\ args.op = "getNominationStatus" /\ result.tag = "resolved"
     /\ IsSome(args.nominations) /\ Includes(args.nominations.v.targets, args.validator))
    => result.v = Defined(
         IF ~IsSome(args.exposure) THEN "INACTIVE"
         ELSE LET elements == args.exposure.v.others
              IN IF ~(\E i \in 1..Len(elements) : elements[i].who = args.nominator)
                 THEN "INACTIVE"
                 ELSE IF Len(elements) > 256 /\ RankByStake(elements, args.nominator) > 256
                      THEN "OVERSUBSCRIBED"
                      ELSE "ACTIVE")

(***************************************************************************)
(* BigNumber arithmetic of the reward computation (bignumber.js with its   *)
(* defaults DECIMAL_PLACES = 20 and ROUND_HALF_UP).  A number of twenty    *)
(* decimals does not fit an integer here, so a BigNumber is kept exactly   *)
(* as the coefficients <<c0, c1, c2, ...>> of                              *)
(*     c0 + c1 * ulp + c2 * ulp^2 + ...,   ulp = 10^-DECIMAL_PLACES,       *)
(* each coefficient a fraction [n, d] in lowest terms with d > 0, the last *)
(* one non-zero unless the value is <<0>>.  A value that needs no rounding *)
(* is <<c0>>; 1/3 rounded to twenty decimals is 1/3 - ulp/3, that is       *)
(* << 1/3, -1/3 >>, and three times that << 1, -1 >>:                      *)
(* 0.99999999999999999999.  plus, minus and multipliedBy are exact, as in  *)
(* the library; dividedBy rounds the quotient to a multiple of ulp, a half *)
(* away from zero.                                                         *)
(***************************************************************************)
RECURSIVE GCD(_, _)
GCD(a, b) == IF b = 0 THEN a ELSE GCD(b, a % b)

Abs(x) == IF x < 0 THEN -x ELSE x

Frac(n, d) ==
    LET g == GCD(Abs(n), Abs(d))
        s == IF d < 0 THEN -1 ELSE 1
    IN [n |-> s * (n \div g), d |-> s * (d \div g)]

ZeroFrac == Frac(0, 1)

FracPlus(a, b) ==
    LET g == GCD(a.d, b.d)
    IN Frac(a.n * (b.d \div g) + b.n * (a.d \div g), (a.d \div g) * b.d)

FracNeg(a) == [n |-> -a.n, d |-> a.d]

FracTimes(a, b) ==
    LET x == Frac(a.n, b.d)
        y == Frac(b.n, a.d)
    IN Frac(x.n * y.n, x.d * y.d)

\* new BigNumber(i) for an integer i
BN(i) == << Frac(i, 1) >>

\* What a BigNumber made of null is, and the quotients by zero.
NaN == [tag |-> "NaN"]
Infinity == [tag |-> "Infinity"]

Coef(a, k) == IF k <= Len(a) THEN a[k] ELSE ZeroFrac

RECURSIVE Trim(_)
Trim(a) == IF Len(a) > 1 /\ a[Len(a)].n = 0 THEN Trim(SubSeq(a, 1, Len(a) - 1)) ELSE a

\* The sign of the first non-zero coefficient from the k-th on.
RECURSIVE SignFrom(_, _)
SignFrom(a, k) ==
    IF k > Len(a) THEN 0
    ELSE IF a[k].n > 0 THEN 1
    ELSE IF a[k].n < 0 THEN -1
    ELSE SignFrom(a, k + 1)

negated(a) == [k \in 1..Len(a) |-> FracNeg(a[k])]

plus(a, b) ==
    Trim([k \in 1..(IF Len(a) > Len(b) THEN Len(a) ELSE Len(b)) |->
            FracPlus(Coef(a, k), Coef(b, k))])

minus(a, b) == plus(a, negated(b))

\* a[1] * b[k] + a[2] * b[k - 1] + ... + a[i] * b[k + 1 - i]
RECURSIVE ConvolutionAt(_, _, _, _)
ConvolutionAt(a, b, k, i) ==
    IF i = 0 THEN ZeroFrac
    ELSE FracPlus(FracTimes(Coef(a, i), Coef(b, k + 1 - i)), ConvolutionAt(a, b, k, i - 1))

multipliedBy(a, b) ==
    Trim([k \in 1..(Len(a) + Len(b) - 1) |-> ConvolutionAt(a, b, k, k)])

\* d without its factors p, at most k of them removed, and their number.
RECURSIVE StripFactor(_, _, _)
StripFactor(d, p, k) == IF k = 0 \/ d % p # 0 THEN d ELSE StripFactor(d \div p, p, k - 1)

RECURSIVE CountFactor(_, _, _)
CountFactor(d, p, k) == IF k = 0 \/ d % p # 0 THEN 0 ELSE 1 + CountFactor(d \div p, p, k - 1)

\* b^e modulo m.  The products stay within the integers for m < 2^15.
RECURSIVE PowMod(_, _, _)
PowMod(b, e, m) == IF e = 0 THEN 1 % m ELSE (PowMod(b, e - 1, m) * b) % m

DECIMAL_PLACES == 20

\* The fractional part of (n / d) * 10^DECIMAL_PLACES for n >= 0, m being d
\* without the factors 2 and 5 that 10^DECIMAL_PLACES cancels.
ScaledFractionOf(n, m, twos, fives) ==
    Frac(((n % m) * ((PowMod(2, DECIMAL_PLACES - twos, m)
                        * PowMod(5, DECIMAL_PLACES - fives, m)) % m)) % m,
         m)

ScaledFraction(c) ==
    ScaledFractionOf(c.n, StripFactor(StripFactor(c.d, 2, DECIMAL_PLACES), 5, DECIMAL_PLACES),
                     CountFactor(c.d, 2, DECIMAL_PLACES), CountFactor(c.d, 5, DECIMAL_PLACES))

\* The fraction has a decimal expansion of at most DECIMAL_PLACES decimals.
EndsWithinDecimalPlaces(q) == ScaledFraction([n |-> Abs(q.n), d |-> q.d]).n = 0

\* The integer nearest to y + t for a t of sign `tail' and smaller than
\* any fraction met here, a half rounded up.
NearestInteger(y, tail) ==
    IF FracPlus(y, Frac(1, 2)).d = 1 /\ tail < 0
    THEN FracPlus(y, Frac(1, 2)).n - 1
    ELSE FracPlus(y, Frac(1, 2)).n \div FracPlus(y, Frac(1, 2)).d

\* q >= 0 rounded to a multiple of ulp, a half up: with q[1] * 10^20 = I + f
\* (I whole, 0 <= f < 1) it is (I + m) * ulp for the whole m nearest to
\* f + q[2] + q[3] * ulp + ..., that is q[1] + (m - f) * ulp.
RoundedAt(q, f) ==
    Trim(<< q[1], FracPlus(Frac(NearestInteger(FracPlus(f, Coef(q, 2)), SignFrom(q, 3)), 1),
                           FracNeg(f)) >>)

roundedToDecimalPlaces(q) ==
    IF SignFrom(q, 1) >= 0 THEN RoundedAt(q, ScaledFraction(q[1]))
    ELSE negated(RoundedAt(negated(q), ScaledFraction(FracNeg(q[1]))))

\* The first n coefficients of the quotient a / b, b[1] not zero.
QuotientNext(a, b, n, q) ==
    Append(q, FracTimes(FracPlus(Coef(a, n), FracNeg(ConvolutionAt(q, b, n, n - 1))),
                        Frac(b[1].d, b[1].n)))

RECURSIVE QuotientSeries(_, _, _)
QuotientSeries(a, b, n) ==
    IF n = 0 THEN <<>> ELSE QuotientNext(a, b, n, QuotientSeries(a, b, n - 1))

\* BigNumber.dividedBy: NaN for 0 / 0, Infinity for a division by zero,
\* else the quotient rounded to DECIMAL_PLACES decimals.  (A divisor that
\* is a non-zero multiple of ulp alone does not occur.)
dividedBy(a, b) ==
    IF SignFrom(b, 1) = 0 THEN (IF SignFrom(a, 1) = 0 THEN NaN ELSE Infinity)
    ELSE roundedToDecimalPlaces(QuotientSeries(a, b, Len(a) + Len(b) + 1))

\* toFixed(0): the nearest integer, halves away from zero (ROUND_HALF_UP).
toFixed0(a) ==
    IF SignFrom(a, 1) >= 0 THEN NearestInteger(a[1], SignFrom(a, 2))
    ELSE -NearestInteger(FracNeg(a[1]), -SignFrom(a, 2))

\* Parts per billion, the literal of `dividedBy(1_000_000_000)'.
PERBILL == 1000000000

\* calculateNominatorReward with the commission not deducted.
calculateNominatorRewardNoCommission(validatorReward, validatorCommission, totalStake, nominatorStake) ==
    multipliedBy(validatorReward, dividedBy(nominatorStake, totalStake))

\* calculateValidatorReward (SubstrateAccountController.ts:480-482)
calculateValidatorReward(totalReward, totalPoints, validatorPoints) ==
    multipliedBy(dividedBy(validatorPoints, totalPoints), totalReward)

\* calculateNominatorReward (SubstrateAccountController.ts:484-493)
calculateNominatorReward(validatorReward, validatorCommission, totalStake, nominatorStake) ==
    LET nominatorShare == dividedBy(nominatorStake, totalStake)
    IN multipliedBy(multipliedBy(minus(BN(1), dividedBy(validatorCommission, BN(PERBILL))),
                                 validatorReward),
                    nominatorShare)

\* SubstrateAddress.compare: 0 for the same account, otherwise the sign of
\* the byte-wise comparison of the public keys.
AddressOrder == << "N", "V1", "V2", "X" >>
AddressIndex(a) == CHOOSE i \in 1..Len(AddressOrder) : AddressOrder[i] = a
compare(a, b) ==
    IF AddressIndex(a) < AddressIndex(b) THEN -1
    ELSE IF AddressIndex(a) > AddressIndex(b) THEN 1 ELSE 0

\* elements.findIndex((element) => element.first.address.compare(who) === 0),
\* 1-based here: the first index whose entry is the account's, 0 when there
\* is none (findIndex returns one less).
IndexOfAddress(elements, who) ==
    IF \E i \in 1..Len(elements) : compare(elements[i].who, who) = 0
    THEN CHOOSE i \in 1..Len(elements) :
           /\ compare(elements[i].who, who) = 0
           /\ \A j \in 1..(i - 1) : compare(elements[j].who, who) # 0
    ELSE 0

\* elements.find((element) => element.first.address.compare(who) === 0)?.second?.value
ValueOf(elements, who) ==
    LET i == IndexOfAddress(elements, who)
    IN IF i = 0 THEN None ELSE Some(elements[i].value)

RECURSIVE SumBN(_)
SumBN(s) == IF s = <<>> THEN BN(0) ELSE plus(SumBN(SubSeq(s, 1, Len(s) - 1)), s[Len(s)])

RECURSIVE FilterSome(_)
FilterSome(s) ==
    IF s = <<>> THEN <<>>
    ELSE IF IsSome(s[1]) THEN <<s[1].v>> \o FilterSome(Tail(s)) ELSE FilterSome(Tail(s))

(***************************************************************************)
(* calculateEraNominatorReward (SubstrateAccountController.ts:417-478).    *)
(* data is what the node holds for the era: reward (ErasValidatorReward),  *)
(* rewardPoints (ErasRewardPoints), and per validator prefs                *)
(* (ErasValidatorPrefs) and clipped (ErasStakersClipped), each a fetch     *)
(* outcome.  Resolves with null (None) or the partial reward details.      *)
(***************************************************************************)
partialRewardOfZeroDefault(accountId, validator, data) ==
    LET prefs == data.prefs[validator]
        exposure == data.clipped[validator]
        validatorPoints == ValueOf(data.rewardPoints.v.individual, validator)
        nominatorStake == IF IsSome(exposure) THEN ValueOf(exposure.v.others, accountId) ELSE None
    IN IF IsSome(prefs) /\ IsSome(exposure) /\ IsSome(validatorPoints) /\ IsSome(nominatorStake)
       THEN Some(calculateNominatorReward(
                   calculateValidatorReward(BN(data.reward.v), BN(data.rewardPoints.v.total),
                                            BN(validatorPoints.v)),
                   BN(prefs.v.commission), BN(exposure.v.total), BN(nominatorStake.v)))
       ELSE Some(BN(0))

partialRewardOf(accountId, validator, data) ==
    LET prefs == data.prefs[validator]
        exposure == data.clipped[validator]
        validatorPoints == ValueOf(data.rewardPoints.v.individual, validator)
        nominatorStake == IF IsSome(exposure) THEN ValueOf(exposure.v.others, accountId) ELSE None
    IN IF IsSome(prefs) /\ IsSome(exposure) /\ IsSome(validatorPoints) /\ IsSome(nominatorStake)
       THEN Some(calculateNominatorReward(
                   calculateValidatorReward(BN(data.reward.v), BN(data.rewardPoints.v.total),
                                            BN(validatorPoints.v)),
                   BN(prefs.v.commission), BN(exposure.v.total), BN(nominatorStake.v)))
       ELSE None

exposureIndexOf(accountId, validator, data) ==
    LET exposure == data.clipped[validator]
    IN IF IsSome(exposure)
       THEN Some(<<validator,
                   IndexOfAddress(exposure.v.others, accountId) - 1>>)
       ELSE None

calculateEraNominatorReward(accountId, validators, eraIndex, data) ==
    IF \/ IsFailed(data.reward) \/ IsFailed(data.rewardPoints)
       \/ \E i \in 1..Len(validators) :
            IsFailed(data.prefs[validators[i]]) \/ IsFailed(data.clipped[validators[i]])
    THEN Rejected("fetch failed")
    ELSE IF ~IsSome(data.reward) \/ ~IsSome(data.rewardPoints) THEN Resolved(None)
    ELSE LET partialRewards ==
               FilterSome([i \in 1..Len(validators) |->
                             partialRewardOf(accountId, validators[i], data)])
         IN IF partialRewards = <<>> THEN Resolved(None)
            ELSE Resolved(Some(
                   [eraIndex |-> eraIndex,
                    amount |-> toFixed0(SumBN(partialRewards)),
                    exposures |-> FilterSome([i \in 1..Len(validators) |->
                                    exposureIndexOf(accountId, validators[i], data)])]))

\* The lookup of getEraValidatorReward: the code
\* tests `compare(address)' for truthiness, which selects the first entry
\* of ANOTHER account (compare is 0, falsy, for the account itself).
\* eraPoints.individual.elements.find((element) =>
\*     element.first.address.compare(address))?.second?.value  (line 362)
validatorPointsFound(elements, address) ==
    IF \E i \in 1..Len(elements) : compare(elements[i].who, address) # 0
    THEN Some(elements[CHOOSE i \in 1..Len(elements) :
                         /\ compare(elements[i].who, address) # 0
                         /\ \A j \in 1..(i - 1) : compare(elements[j].who, address) = 0].value)
    ELSE None

(***************************************************************************)
(* getEraValidatorReward (SubstrateAccountController.ts:341-376).          *)
(* data is the node's data for eraIndex, previousReward the outcome of     *)
(* getValidatorReward(eraIndex - 1), fetched only when the era itself has  *)
(* no reward.  amount is validatorReward.toFixed(): the exact value.       *)
(***************************************************************************)
getEraValidatorReward(accountId, eraIndex, data, previousReward) ==
    LET eraReward == IF IsSome(data.reward) THEN data.reward ELSE previousReward
        eraPoints == data.rewardPoints
        exposureClipped == data.clipped[accountId]
        validatorPrefs == data.prefs[accountId]
    IN IF \/ IsFailed(data.reward) \/ IsFailed(eraReward) \/ IsFailed(eraPoints)
          \/ IsFailed(exposureClipped) \/ IsFailed(validatorPrefs)
       THEN Rejected("fetch failed")
       ELSE IF ~IsSome(eraReward) \/ ~IsSome(eraPoints) \/ ~IsSome(exposureClipped)
               \/ ~IsSome(validatorPrefs)
            THEN Resolved(None)
       ELSE LET validatorPoints == validatorPointsFound(eraPoints.v.individual, accountId)
            IN IF ~IsSome(validatorPoints) THEN Resolved(None)
               ELSE Resolved(Some(
                      [amount |-> calculateValidatorReward(BN(eraReward.v), BN(eraPoints.v.total),
                                                           BN(validatorPoints.v)),
                       totalStake |-> exposureClipped.v.total,
                       ownStake |-> exposureClipped.v.own,
                       commission |-> validatorPrefs.v.commission]))

(***************************************************************************)
(* getNominatorRewards (SubstrateAccountController.ts:378-415).            *)
(* eras is the number of past eras asked for; chain[era] is the node's     *)
(* data for an era.  One rejected era rejects the whole Promise.all.       *)
(***************************************************************************)
eraIndicesOf(activeEra, eras) == [i \in 1..eras |-> activeEra.index - 1 - (i - 1)]

withTimestamp(partial, activeEra, expectedEraDuration) ==
    LET rewardEra == IF partial.eraIndex # 0 THEN partial.eraIndex ELSE activeEra.index
        erasPassed == activeEra.index - rewardEra
    IN [eraIndex |-> partial.eraIndex, amount |-> partial.amount,
        exposures |-> partial.exposures,
        timestamp |-> IF IsSome(activeEra.start)
                      THEN activeEra.start.v - expectedEraDuration * (erasPassed - 1)
                      ELSE 0]

getNominatorRewards(accountId, validators, activeEra, eras, expectedEraDuration, chain) ==
    IF IsFailed(expectedEraDuration) THEN Rejected("fetch failed")
    ELSE IF ~IsSome(expectedEraDuration) THEN Rejected("Could not fetch all necessary data.")
    ELSE LET eraIndices == eraIndicesOf(activeEra, eras)
             partials == [i \in 1..Len(eraIndices) |->
                            calculateEraNominatorReward(accountId, validators, eraIndices[i],
                                                        chain[eraIndices[i]])]
         IN IF \E i \in 1..Len(partials) : partials[i].tag = "rejected"
            THEN Rejected("fetch failed")
            ELSE Resolved([i \in 1..Len(FilterSome([j \in 1..Len(partials) |-> partials[j].v])) |->
                             withTimestamp(FilterSome([j \in 1..Len(partials) |-> partials[j].v])[i],
                                           activeEra, expectedEraDuration.v)])

\* Bounds of the reward inputs: commissions are k tenths (k * 100_000_000
\* parts per billion), nominator stakes k * 500, up to MaxEras past eras.
MaxCommissionTenths == 1
MaxStakeUnits == 2
MaxEras == 2

PointsLists ==
    { << [who |-> "V1", value |-> 250], [who |-> "V2", value |-> 500] >>,
      << [who |-> "V2", value |-> 500], [who |-> "V1", value |-> 250] >>,
      << [who |-> "V2", value |-> 500] >> }

ExposureV1(stake) ==
    [total |-> 5000, own |-> 1500 - stake,
     others |-> << [who |-> "X", value |-> 3500], [who |-> "N", value |-> stake] >>]
ExposureV1WithoutN ==
    [total |-> 5000, own |-> 1500, others |-> << [who |-> "X", value |-> 3500] >>]
ExposureV2 ==
    [total |-> 4000, own |-> 1000,
     others |-> << [who |-> "N", value |-> 1000], [who |-> "X", value |-> 2000] >>]

\* The nominator holds a third of the exposure: a share that dividedBy
\* rounds (0.33333333333333333333).
ExposureV2Thirds ==
    [total |-> 3000, own |-> 0,
     others |-> << [who |-> "N", value |-> 1000], [who |-> "X", value |-> 2000] >>]

EraData ==
    {[reward |-> r, rewardPoints |-> p,
      prefs |-> [v \in Validators |-> IF v = "V1" THEN c1 ELSE c2],
      clipped |-> [v \in Validators |-> IF v = "V1" THEN e1 ELSE e2]]
     : r \in {Failed, None, Some(6), Some(100), Some(1000)},
       p \in {None} \cup {Some([total |-> 1000, individual |-> l]) : l \in PointsLists},
       c1 \in {None} \cup {Some([commission |-> k * 100000000]) : k \in 0..MaxCommissionTenths},
       c2 \in {None, Some([commission |-> 500000000])},
       e1 \in {None, Some(ExposureV1WithoutN)}
                \cup {Some(ExposureV1(k * 500)) : k \in 1..MaxStakeUnits},
       e2 \in {None, Some(ExposureV2), Some(ExposureV2Thirds)}}

ValidatorLists == { <<"V1">>, <<"V1", "V2">>, <<"V2", "V1">> }

\* The era data getNominatorRewards is run on: complete, or with one
\* prerequisite missing or failing.
CompleteEra ==
    [reward |-> Some(100),
     rewardPoints |-> Some([total |-> 1000,
                            individual |-> << [who |-> "V1", value |-> 250],
                                              [who |-> "V2", value |-> 500] >>]),
     prefs |-> [v \in Validators |-> IF v = "V1" THEN Some([commission |-> 100000000])
                                                 ELSE Some([commission |-> 500000000])],
     clipped |-> [v \in Validators |-> IF v = "V1" THEN Some(ExposureV1(500))
                                                   ELSE Some(ExposureV2)]]

EraScenarios ==
    { CompleteEra,
      [CompleteEra EXCEPT !.reward = None],
      [CompleteEra EXCEPT !.reward = Failed],
      [CompleteEra EXCEPT !.rewardPoints = None],
      [CompleteEra EXCEPT !.prefs["V1"] = None],
      [CompleteEra EXCEPT !.clipped["V1"] = None],
      [CompleteEra EXCEPT !.clipped["V1"] = None, !.prefs["V2"] = None] }

ActiveEras == {[index |-> 5, start |-> st] : st \in {None, Some(1000)}}

RewardArgs ==
    {[op |-> "calculateEraNominatorReward", accountId |-> "N", validators |-> vs,
      eraIndex |-> 4, data |-> d] : vs \in ValidatorLists, d \in EraData}
    \cup
    {[op |-> "getEraValidatorReward", accountId |-> v, eraIndex |-> 4, data |-> d,
      previousReward |-> pr] : v \in Validators, d \in EraData, pr \in {None, Some(100)}}
    \cup
    UNION {{[op |-> "getNominatorRewards", accountId |-> "N", validators |-> vs,
             activeEra |-> ae, eras |-> n, expectedEraDuration |-> dur, chain |-> ch]
            : vs \in ValidatorLists, ae \in ActiveEras, dur \in {Failed, None, Some(10)},
              ch \in [(5 - n)..4 -> EraScenarios]} : n \in 1..MaxEras}

InitRewards ==
    /\ pc = "call"
    /\ args \in RewardArgs
    /\ result = Pending
    /\ NoClient

CallCalculateEraNominatorReward ==
    /\ pc = "call"
    /\ args.op = "calculateEraNominatorReward"
    /\ result' = calculateEraNominatorReward(args.accountId, args.validators, args.eraIndex,
                                             args.data)
    /\ pc' = "done"
    /\ UNCHANGED <<args, nodeVars>>

CallGetEraValidatorReward ==
    /\ pc = "call"
    /\ args.op = "getEraValidatorReward"
    /\ result' = getEraValidatorReward(args.accountId, args.eraIndex, args.data,
                                       args.previousReward)
    /\ pc' = "done"
    /\ UNCHANGED <<args, nodeVars>>

CallGetNominatorRewards ==
    /\ pc = "call"
    /\ args.op = "getNominatorRewards"
    /\ result' = getNominatorRewards(args.accountId, args.validators, args.activeEra, args.eras,
                                     args.expectedEraDuration, args.chain)
    /\ pc' = "done"
    /\ UNCHANGED <<args, nodeVars>>

NextRewards ==
    \/ CallCalculateEraNominatorReward
    \/ CallGetEraValidatorReward
    \/ CallGetNominatorRewards

SpecRewards == InitRewards /\ [][NextRewards]_vars

(***************************************************************************)
(* The documented reward formula, stated on the chain data directly.       *)
(***************************************************************************)
\* The validator has everything the nominator's share is computed from.
HasCompleteData(v, data, accountId) ==
    /\ IsSome(data.prefs[v])
    /\ IsSome(data.clipped[v])
    /\ \E e \in Range(data.clipped[v].v.others) : e.who = accountId
    /\ \E e \in Range(data.rewardPoints.v.individual) : e.who = v

\* (1 - commission/10^9) * ((validatorPoints / totalPoints) * eraPayout)
\*   * (nominatorStake / validatorTotalStake)
FormulaTerm(v, data, accountId) ==
    LET points == (CHOOSE e \in Range(data.rewardPoints.v.individual) : e.who = v).value
        stake == (CHOOSE e \in Range(data.clipped[v].v.others) : e.who = accountId).value
    IN FracTimes(
         FracTimes(Frac(PERBILL - data.prefs[v].v.commission, PERBILL),
                   Frac(points * data.reward.v, data.rewardPoints.v.total)),
         Frac(stake, data.clipped[v].v.total))

RECURSIVE FormulaSum(_, _, _)
FormulaSum(validators, data, accountId) ==
    IF validators = <<>> THEN ZeroFrac
    ELSE FracPlus(IF HasCompleteData(validators[1], data, accountId)
              THEN FormulaTerm(validators[1], data, accountId) ELSE ZeroFrac,
              FormulaSum(Tail(validators), data, accountId))

\* The term of validator v with each of its three quotients rounded to 20
\* decimal places, halves up.
RoundedFormulaTermOf(commission, points, totalPoints, payout, stake, totalStake) ==
    multipliedBy(
      multipliedBy(minus(BN(1), dividedBy(BN(commission), BN(PERBILL))),
                   multipliedBy(dividedBy(BN(points), BN(totalPoints)), BN(payout))),
      dividedBy(BN(stake), BN(totalStake)))

RoundedFormulaTerm(v, data, accountId) ==
    RoundedFormulaTermOf(
      data.prefs[v].v.commission,
      (CHOOSE e \in Range(data.rewardPoints.v.individual) : e.who = v).value,
      data.rewardPoints.v.total,
      data.reward.v,
      (CHOOSE e \in Range(data.clipped[v].v.others) : e.who = accountId).value,
      data.clipped[v].v.total)

RECURSIVE RoundedFormulaSum(_, _, _)
RoundedFormulaSum(validators, data, accountId) ==
    IF validators = <<>> THEN BN(0)
    ELSE plus(IF HasCompleteData(validators[1], data, accountId)
              THEN RoundedFormulaTerm(validators[1], data, accountId) ELSE BN(0),
              RoundedFormulaSum(Tail(validators), data, accountId))

\* That sum rounded to a whole number, a half rounded up.
RoundedFormulaAmount(validators, data, accountId) ==
    toFixed0(RoundedFormulaSum(validators, data, accountId))

\* The documented example: payout 100, total points 1000, validator points
\* 250, commission 100_000_000, total exposure 5000, nominator stake 500.
IsRewardExample ==
    /\ args.op = "calculateEraNominatorReward"
    /\ args.validators = <<"V1">>
    /\ args.data.reward = Some(100)
    /\ IsSome(args.data.rewardPoints)
    /\ args.data.prefs["V1"] = Some([commission |-> 100000000])
    /\ args.data.clipped["V1"] = Some(ExposureV1(500))

\* C4 as stated: the reported amount equals the sum over the nominated
\* validators of (1 - commission/10^9) * ((points/totalPoints) * payout)
\* * (stake/totalStake); it is 2.25 for the documented example.
RewardAmountIsFormula ==
    (pc = "done" /\ args.op = "calculateEraNominatorReward"
       /\ result.tag = "resolved" /\ IsSome(result.v))
    => /\ Frac(result.v.v.amount, 1) = FormulaSum(args.validators, args.data, args.accountId)
       /\ IsRewardExample => Frac(result.v.v.amount, 1) = Frac(225, 100)

\* C4 amended: the reported amount is that sum, taken over the nominated
\* validators with complete data, with every quotient (commission/10^9,
\* points/totalPoints, stake/totalStake) rounded to 20 decimal places, and
\* rounded to a whole number, halves up (toFixed(0)); it is 2 for the
\* documented example.
RewardAmountIsRoundedFormula ==
    (pc = "done" /\ args.op = "calculateEraNominatorReward"
       /\ result.tag = "resolved" /\ IsSome(result.v))
    => /\ result.v.v.amount
            = RoundedFormulaAmount(args.validators, args.data, args.accountId)
       /\ IsRewardExample => result.v.v.amount = 2

\* The documented example was computed, and reported as 2.
RewardExampleReached ==
    /\ pc = "done" /\ IsRewardExample
    /\ result.tag = "resolved" /\ IsSome(result.v) /\ result.v.v.amount = 2
    /\ FormulaSum(args.validators, args.data, args.accountId) = Frac(9, 4)

\* C5: the validator reward of getEraValidatorReward for validator V and
\* era e is (points recorded for V in e / total points of e) * era payout:
\* it is computed from V's own entry of the individual reward-point list.
ValidatorRewardFromOwnPoints ==
    (pc = "done" /\ args.op = "getEraValidatorReward"
       /\ result.tag = "resolved" /\ IsSome(result.v))
    => /\ \E e \in Range(args.data.rewardPoints.v.individual) : e.who = args.accountId
       /\ result.v.v.amount =
            << Frac((CHOOSE e \in Range(args.data.rewardPoints.v.individual) :
                       e.who = args.accountId).value
                      * (IF IsSome(args.data.reward) THEN args.data.reward.v
                                                     ELSE args.previousReward.v),
                    args.data.rewardPoints.v.total) >>

\* An era lacks a prerequisite: the reward pool, the reward points, or the
\* clipped exposure or prefs of one of the nominated validators.
PrerequisiteMissing(validators, data) ==
    \/ IsNone(data.reward)
    \/ IsNone(data.rewardPoints)
    \/ \E v \in Range(validators) : IsNone(data.clipped[v]) \/ IsNone(data.prefs[v])

HasEntry(rewards, era) == \E i \in 1..Len(rewards) : rewards[i].eraIndex = era

\* C6 as stated: an era for which any prerequisite is missing contributes no
\* entry to the list getNominatorRewards returns.
IncompleteEraNoEntry ==
    (pc = "done" /\ args.op = "getNominatorRewards" /\ result.tag = "resolved")
    => \A era \in DOMAIN args.chain :
          PrerequisiteMissing(args.validators, args.chain[era]) => ~HasEntry(result.v, era)

\* C6 amended: an era contributes an entry exactly when its reward pool and
\* reward points are present and at least one nominated validator has
\* complete data (prefs, a clipped exposure listing the nominator, a
\* reward-point entry); the amount of the entry is the rounded sum over the
\* validators with complete data (quotients rounded to 20 decimal places,
\* the sum to a whole number), those without being left out.
EraEntryIffSomeValidatorComplete ==
    (pc = "done" /\ args.op = "getNominatorRewards" /\ result.tag = "resolved")
    => \A era \in DOMAIN args.chain :
          LET data == args.chain[era]
              contributes ==
                  /\ IsSome(data.reward) /\ IsSome(data.rewardPoints)
                  /\ \E v \in Range(args.validators) : HasCompleteData(v, data, args.accountId)
          IN /\ HasEntry(result.v, era) <=> contributes
             /\ \A i \in 1..Len(result.v) :
                  result.v[i].eraIndex = era =>
                     result.v[i].amount
                       = RoundedFormulaAmount(args.validators, data, args.accountId)

\* Two eras asked for: one without reward pool, which contributes nothing,
\* and one where V1 has no prefs but V2 is complete, which contributes the
\* reward earned with V2 alone.
PartialEraEntryReached ==
    /\ pc = "done" /\ args.op = "getNominatorRewards" /\ result.tag = "resolved"
    /\ args.validators = <<"V1", "V2">> /\ args.eras = 2
    /\ IsNone(args.chain[4].reward)
    /\ IsNone(args.chain[3].prefs["V1"]) /\ IsSome(args.chain[3].clipped["V1"])
    /\ Len(result.v) = 1 /\ result.v[1].eraIndex = 3 /\ result.v[1].amount = 6

(***************************************************************************)
(* The composed queries: getValidatorDetails and getNominatorDetails.      *)
(*                                                                         *)
(* `chain' is what the node answers during one query, one outcome per      *)
(* storage item or constant: accountInfo, existentialDeposit, ledger,      *)
(* nominations, activeEra, expectedEraDuration, electionStatus, validators,*)
(* stakers[v] (ErasStakers of the active era), eras[e] (the reward data of *)
(* era e, see EraData), identityOf[a] and superOf[a].  An item read more   *)
(* than once during a query is answered the same way each time.            *)
(***************************************************************************)

\* getBalance (SubstrateAccountController.ts:52-56)
getBalance(accountInfo) ==
    IF IsFailed(accountInfo) THEN Rejected("fetch failed")
    ELSE IF IsSome(accountInfo) THEN Resolved(accountInfo.v.free)
    ELSE Resolved(0)

\* getAccountIdentityInfo (SubstrateAccountController.ts:589-603): the
\* try/catch turns every failed fetch into null.
RECURSIVE getAccountIdentityInfo(_, _)
getAccountIdentityInfo(address, chain) ==
    LET registration == chain.identityOf[address]
        superOf == chain.superOf[address]
    IN IF IsFailed(registration) THEN None
       ELSE IF IsSome(registration) THEN registration
       ELSE IF IsFailed(superOf) THEN None
       ELSE IF IsSome(superOf) THEN getAccountIdentityInfo(superOf.v, chain)
       ELSE None

\* status of getValidatorDetails (lines 137-141), with status left
\* undefined when the validator set is absent.
validatorStatusInactiveDefault(currentValidators, address) ==
    IF IsSome(currentValidators)
         /\ \E i \in 1..Len(currentValidators.v) : compare(currentValidators.v[i], address) = 0
    THEN Defined("Active")
    ELSE Defined("Inactive")

validatorStatusOf(currentValidators, address) ==
    IF IsSome(currentValidators)
         /\ \E i \in 1..Len(currentValidators.v) : compare(currentValidators.v[i], address) = 0
    THEN Defined("Active")
    ELSE IF IsSome(currentValidators) THEN Defined("Inactive")
    ELSE undefined

\* The value getValidatorDetails returns (lines 144-155).
validatorDetailsOf(address, identity, status, exposure, validatorPrefs, lastEraReward) ==
    [address |-> Defined(address),
     name |-> IF IsSome(identity) THEN Defined(identity.v) ELSE undefined,
     status |-> status,
     ownStash |-> IF IsSome(exposure) THEN Defined(exposure.v.own) ELSE undefined,
     totalStakingBalance |-> IF IsSome(exposure) THEN Defined(exposure.v.total) ELSE undefined,
     commission |-> IF IsSome(validatorPrefs)
                    THEN Defined(dividedBy(BN(validatorPrefs.v.commission), BN(PERBILL)))
                    ELSE undefined,
     lastEraReward |-> IF IsSome(lastEraReward) THEN Defined(lastEraReward.v) ELSE undefined,
     nominators |-> Defined(IF IsSome(exposure) THEN Len(exposure.v.others) ELSE 0)]

\* getValidatorDetails with an active era (lines 122-141), from the
\* settled fetches of its Promise.all and of getEraValidatorReward.
validatorDetailsInEra(accountId, identity, currentValidators, validatorPrefs, exposure, lastEraReward) ==
    IF IsFailed(currentValidators) \/ IsFailed(validatorPrefs) \/ IsFailed(exposure)
    THEN Rejected("fetch failed")
    ELSE IF lastEraReward.tag = "rejected" THEN lastEraReward
    ELSE Resolved(validatorDetailsOf(accountId, identity,
                     validatorStatusOf(currentValidators, accountId),
                     exposure, validatorPrefs, lastEraReward.v))

(***************************************************************************)
(* getValidatorDetails (SubstrateAccountController.ts:112-156).            *)
(***************************************************************************)
getValidatorDetails(accountId, chain) ==
    IF IsFailed(chain.activeEra) THEN Rejected("fetch failed")
    ELSE IF ~IsSome(chain.activeEra)
         THEN Resolved(validatorDetailsOf(accountId, None, undefined, None, None, None))
    ELSE validatorDetailsInEra(accountId,
             getAccountIdentityInfo(accountId, chain),
             chain.validators,
             chain.eras[chain.activeEra.v.index].prefs[accountId],
             chain.stakers[accountId],
             getEraValidatorReward(accountId, chain.activeEra.v.index - 1,
                 chain.eras[chain.activeEra.v.index - 1],
                 chain.eras[chain.activeEra.v.index - 2].reward))

\* partitionArray under the predicate `activeEra.index.lte(era)'.
RECURSIVE partitionArrayInclusive(_, _)
partitionArrayInclusive(array, activeEraIndex) ==
    IF array = <<>> THEN << <<>>, <<>> >>
    ELSE LET rest == partitionArrayInclusive(Tail(array), activeEraIndex)
         IN IF activeEraIndex <= array[1].era
            THEN << <<array[1]>> \o rest[1], rest[2] >>
            ELSE << rest[1], <<array[1]>> \o rest[2] >>

\* partitionArray (lines 605-613) under getUnlockingDetails' predicate
\* `activeEra.index.lt(era)': <<still locked, unlocked>>, order kept.
RECURSIVE partitionArray(_, _)
partitionArray(array, activeEraIndex) ==
    IF array = <<>> THEN << <<>>, <<>> >>
    ELSE LET rest == partitionArray(Tail(array), activeEraIndex)
         IN IF activeEraIndex < array[1].era
            THEN << <<array[1]>> \o rest[1], rest[2] >>
            ELSE << rest[1], <<array[1]>> \o rest[2] >>

\* getUnlockingDetails (lines 290-314).  expectedEraDuration is Some(d), or
\* None for a null: multipliedBy(null) is NaN, and so is expectedUnlock.
getUnlockingDetails(unlocking, activeEra, expectedEraDuration) ==
    LET parts == partitionArray(unlocking, activeEra.index)
        eraStart == IF IsSome(activeEra.start) THEN activeEra.start.v ELSE 0
    IN [locked |-> [i \in 1..Len(parts[1]) |->
                      [value |-> parts[1][i].value,
                       expectedUnlock |-> IF IsSome(expectedEraDuration)
                                          THEN eraStart + (parts[1][i].era - activeEra.index)
                                                            * expectedEraDuration.v
                                          ELSE NaN]],
        unlocked |-> SumSeq([i \in 1..Len(parts[2]) |-> parts[2][i].value])]

\* getStakingStatus (lines 316-339)
getStakingStatus(nominator, nominations, eraIndex, chain) ==
    LET isWaitingForNomination == IsSome(nominations) /\ nominations.v.submittedIn >= eraIndex
        statuses == IF ~isWaitingForNomination /\ IsSome(nominations)
                    THEN [i \in 1..Len(nominations.v.targets) |->
                            getNominationStatus(nominator, nominations.v.targets[i],
                                                Some(eraIndex), None, chain.nominations,
                                                chain.stakers[nominations.v.targets[i]])]
                    ELSE <<>>
        hasActiveNominations == \E i \in 1..Len(statuses) : statuses[i].v = Defined("ACTIVE")
    IN IF \E i \in 1..Len(statuses) : statuses[i].tag = "rejected"
       THEN Rejected("fetch failed")
       ELSE IF ~IsSome(nominations) THEN Resolved("bonded")
       ELSE IF hasActiveNominations THEN Resolved("nominating")
       ELSE IF ~isWaitingForNomination /\ ~hasActiveNominations
            THEN Resolved("nominating_inactive")
       ELSE Resolved("nominating_waiting")

(***************************************************************************)
(* getStakingDetails (lines 254-288).  activeEra is typed non-null; read   *)
(* on a null it throws a TypeError, which rejects the async function.  A   *)
(* null expectedEraDuration (None) is never dereferenced: the sum of line  *)
(* 285 is then NaN, and `NaN || 0' is 0.                                   *)
(*                                                                         *)
(* getStakingStatus and getNominatorRewards run side by side under         *)
(* Promise.all (lines 271-274), which rejects with the rejection that      *)
(* settles first.  When both reject, which one that is depends on how the  *)
(* node's answers arrive: firstRejected names it.                          *)
(***************************************************************************)
PromiseAllMembers == {"stakingStatus", "rewards"}

stakingDetailsOf(stakingLedger, activeEra, expectedEraDuration, unlockingDetails, stakingStatus, rewards, firstRejected) ==
    IF stakingStatus.tag = "rejected" /\ rewards.tag = "rejected"
    THEN IF firstRejected = "rewards" THEN rewards ELSE stakingStatus
    ELSE IF stakingStatus.tag = "rejected" THEN stakingStatus
    ELSE IF rewards.tag = "rejected" THEN rewards
    ELSE Resolved(Some(
           [total |-> stakingLedger.total,
            active |-> stakingLedger.active,
            locked |-> unlockingDetails.locked,
            unlocked |-> unlockingDetails.unlocked,
            status |-> stakingStatus.v,
            nextEra |-> IF IsSome(activeEra.start) /\ IsSome(expectedEraDuration)
                        THEN activeEra.start.v + expectedEraDuration.v
                        ELSE 0,
            rewards |-> rewards.v]))

getStakingDetails(accountId, stakingLedger, nominations, activeEra, expectedEraDuration, chain, firstRejected) ==
    IF ~IsSome(stakingLedger) THEN Resolved(None)
    ELSE IF ~IsSome(activeEra) THEN Rejected("TypeError")
    ELSE stakingDetailsOf(stakingLedger.v, activeEra.v, expectedEraDuration,
             getUnlockingDetails(stakingLedger.v.unlocking, activeEra.v, expectedEraDuration),
             getStakingStatus(accountId, nominations, activeEra.v.index, chain),
             IF IsSome(nominations)
             THEN getNominatorRewards(accountId, nominations.v.targets, activeEra.v, 5,
                                      chain.expectedEraDuration, chain.eras)
             ELSE Resolved(<<>>),
             firstRejected)

\* The join of getNominatorDetails and its check (lines 161-180), without
\* the test of activeEra and expectedEraDuration.
nominatorDetailsJoinUnchecked(chain) ==
    LET balance == getBalance(chain.accountInfo)
        transferableBalance == getTransferableBalance(chain.accountInfo,
                                   chain.existentialDeposit, FALSE, TRUE)
    IN IF \/ balance.tag = "rejected" \/ transferableBalance.tag = "rejected"
          \/ IsFailed(chain.ledger) \/ IsFailed(chain.nominations) \/ IsFailed(chain.activeEra)
          \/ IsFailed(chain.expectedEraDuration) \/ IsFailed(chain.existentialDeposit)
       THEN Rejected("fetch failed")
       ELSE Resolved([balance |-> balance.v, transferableBalance |-> transferableBalance.v,
                      stakingLedger |-> chain.ledger, nominations |-> chain.nominations,
                      activeEra |-> chain.activeEra,
                      expectedEraDuration |-> chain.expectedEraDuration])

\* The join of getNominatorDetails and its check (lines 161-180).  balance
\* and transferableBalance are BigNumber objects, which are always truthy.
nominatorDetailsJoin(chain) ==
    LET balance == getBalance(chain.accountInfo)
        transferableBalance == getTransferableBalance(chain.accountInfo,
                                   chain.existentialDeposit, FALSE, TRUE)
    IN IF \/ balance.tag = "rejected" \/ transferableBalance.tag = "rejected"
          \/ IsFailed(chain.ledger) \/ IsFailed(chain.nominations) \/ IsFailed(chain.activeEra)
          \/ IsFailed(chain.expectedEraDuration) \/ IsFailed(chain.existentialDeposit)
       THEN Rejected("fetch failed")
       ELSE IF ~IsSome(chain.activeEra) \/ ~IsSome(chain.expectedEraDuration)
            THEN Rejected("Could not fetch nominator details.")
       ELSE Resolved([balance |-> balance.v, transferableBalance |-> transferableBalance.v,
                      stakingLedger |-> chain.ledger, nominations |-> chain.nominations,
                      activeEra |-> chain.activeEra,
                      expectedEraDuration |-> chain.expectedEraDuration])

(***************************************************************************)
(* getNominatorDetails (SubstrateAccountController.ts:158-199).            *)
(* validatorIds: None when the caller passes none, else Some(list).        *)
(***************************************************************************)
\* The steps of getNominatorDetails, each from the settled awaits before
\* it: the returned object (lines 192-198), the available actions (lines
\* 185-190) and the staking details (lines 182-184).
nominatorDetailsOf(accountId, balance, validators, stakingDetails, availableActions) ==
    IF availableActions.tag = "rejected" THEN availableActions
    ELSE Resolved([address |-> Defined(accountId),
                   balance |-> Defined(balance),
                   delegatees |-> Defined(validators),
                   availableActions |-> Defined(availableActions.v),
                   stakingDetails |-> IF IsSome(stakingDetails) THEN Defined(stakingDetails.v)
                                                                ELSE undefined])

nominatorDetailsWithStaking(accountId, validatorIds, chain, results, validators, stakingDetails) ==
    IF stakingDetails.tag = "rejected" THEN stakingDetails
    ELSE nominatorDetailsOf(accountId, results.balance, validators, stakingDetails.v,
             getAvailableStakingActions(stakingDetails.v, results.nominations,
                 IF IsSome(validatorIds) THEN validatorIds.v ELSE validators,
                 results.transferableBalance, chain.existentialDeposit, chain.electionStatus))

nominatorDetailsAfterJoin(accountId, validatorIds, chain, results, firstRejected) ==
    IF results.tag = "rejected" THEN results
    ELSE nominatorDetailsWithStaking(accountId, validatorIds, chain, results.v,
             IF IsSome(results.v.nominations) THEN results.v.nominations.v.targets ELSE <<>>,
             getStakingDetails(accountId, results.v.stakingLedger, results.v.nominations,
                               results.v.activeEra, results.v.expectedEraDuration, chain,
                               firstRejected))

getNominatorDetails(accountId, validatorIds, chain, firstRejected) ==
    nominatorDetailsAfterJoin(accountId, validatorIds, chain, nominatorDetailsJoin(chain),
                              firstRejected)

\* The node's answers the composed queries are run on.  Every era carries
\* the same reward data, but for the reward of the era before the last.
ErasOf(scenario, previousReward) ==
    [e \in 0..5 |-> IF e = 3 THEN [scenario EXCEPT !.reward = previousReward] ELSE scenario]

IdentityAccounts == {"V1", "V2", "N", "P"}

IdentityOfs ==
    {[a \in IdentityAccounts |-> IF a = "V1" THEN own ELSE IF a = "P" THEN parentId ELSE None]
     : own \in {Failed, None, Some("alice")}, parentId \in {Failed, None, Some("parent")}}

SuperOfs ==
    {[a \in IdentityAccounts |-> IF a = "V1" THEN s ELSE None] : s \in {Failed, None, Some("P")}}

Ledgers ==
    {[total |-> 0, active |-> 0, unlocking |-> <<>>],
     [total |-> 7, active |-> 5,
      unlocking |-> << [value |-> 1, era |-> 4], [value |-> 1, era |-> 7] >>],
     [total |-> 2, active |-> 0, unlocking |-> << [value |-> 2, era |-> 5] >>],
     [total |-> 6, active |-> 5, unlocking |-> << [value |-> 1, era |-> 6] >>]}

NominationsDomain ==
    {[targets |-> <<"V1">>, submittedIn |-> 3], [targets |-> <<"V1", "V2">>, submittedIn |-> 5]}

BaseChain ==
    [accountInfo |-> Some([free |-> 10, reserved |-> 1, miscFrozen |-> 2, feeFrozen |-> 3]),
     existentialDeposit |-> Some(1),
     ledger |-> None,
     nominations |-> None,
     activeEra |-> Some([index |-> 5, start |-> Some(1000)]),
     expectedEraDuration |-> Some(10),
     electionStatus |-> Some("CLOSED"),
     validators |-> Some(<<"V1", "V2">>),
     stakers |-> [v \in Validators |-> IF v = "V1" THEN Some(ExposureV1(500)) ELSE None],
     eras |-> ErasOf(CompleteEra, Some(100)),
     identityOf |-> [a \in IdentityAccounts |-> None],
     superOf |-> [a \in IdentityAccounts |-> None]]

\* The reward data getValidatorDetails is run on.  One scenario for every
\* era: complete, or with one of the fetches of getEraValidatorReward
\* absent or failing, or with a reward points list that lacks the
\* validator, lacks every other account, or is empty.
ValidatorEraScenarios ==
    {CompleteEra,
     [CompleteEra EXCEPT !.reward = None],
     [CompleteEra EXCEPT !.reward = Failed],
     [CompleteEra EXCEPT !.rewardPoints = None],
     [CompleteEra EXCEPT !.rewardPoints = Failed],
     [CompleteEra EXCEPT !.prefs["V1"] = None],
     [CompleteEra EXCEPT !.prefs["V1"] = Failed],
     [CompleteEra EXCEPT !.clipped["V1"] = None],
     [CompleteEra EXCEPT !.clipped["V1"] = Failed],
     [CompleteEra EXCEPT !.rewardPoints.v.individual = << [who |-> "V1", value |-> 250] >>],
     [CompleteEra EXCEPT !.rewardPoints.v.individual = << [who |-> "V2", value |-> 500] >>],
     [CompleteEra EXCEPT !.rewardPoints.v.individual = << >>]}

\* The eras of those scenarios; an era without a reward is followed by one
\* whose reward is present, absent or fails; and the validator's prefs
\* absent or failing for the active era (5) only or the last era (4) only.
ValidatorEras ==
    {ErasOf(sc, Some(100)) : sc \in ValidatorEraScenarios}
    \cup {ErasOf([CompleteEra EXCEPT !.reward = None], pr) : pr \in {None, Failed}}
    \cup {[ErasOf(CompleteEra, Some(100)) EXCEPT ![e].prefs["V1"] = x]
          : e \in {4, 5}, x \in {None, Failed}}

ValidatorChains ==
    {[BaseChain EXCEPT !.activeEra = ae, !.validators = vs, !.stakers["V1"] = ex,
                       !.eras = er, !.identityOf = io, !.superOf = so]
     : ae \in {Failed, None, Some([index |-> 5, start |-> Some(1000)])},
       vs \in {Failed, None, Some(<<"V1", "V2">>), Some(<<"V2">>)},
       ex \in {Failed, None, Some(ExposureV1(500))},
       er \in ValidatorEras,
       io \in IdentityOfs, so \in SuperOfs}

\* The fetches of getNominatorDetails, any one of which may fail.
NominatorFetches ==
    {"accountInfo", "existentialDeposit", "ledger", "nominations", "activeEra",
     "expectedEraDuration", "electionStatus", "stakers", "eraReward"}

WithFailure(chain, fetch) ==
    CASE fetch = "none" -> chain
      [] fetch = "accountInfo" -> [chain EXCEPT !.accountInfo = Failed]
      [] fetch = "existentialDeposit" -> [chain EXCEPT !.existentialDeposit = Failed]
      [] fetch = "ledger" -> [chain EXCEPT !.ledger = Failed]
      [] fetch = "nominations" -> [chain EXCEPT !.nominations = Failed]
      [] fetch = "activeEra" -> [chain EXCEPT !.activeEra = Failed]
      [] fetch = "expectedEraDuration" -> [chain EXCEPT !.expectedEraDuration = Failed]
      [] fetch = "electionStatus" -> [chain EXCEPT !.electionStatus = Failed]
      [] fetch = "stakers" -> [chain EXCEPT !.stakers["V1"] = Failed]
      [] fetch = "eraReward" ->
           [chain EXCEPT !.eras = [e \in 0..5 |-> [chain.eras[e] EXCEPT !.reward = Failed]]]

NominatorChains ==
    {WithFailure([BaseChain EXCEPT !.accountInfo = ai, !.ledger = lg, !.nominations = nm,
                                   !.activeEra = ae, !.expectedEraDuration = du,
                                   !.electionStatus = es, !.stakers["V1"] = ex,
                                   !.eras = ErasOf(sc, sc.reward)], f)
     : ai \in {None, BaseChain.accountInfo},
       lg \in {None} \cup {Some(l) : l \in Ledgers},
       nm \in {None} \cup {Some(n) : n \in NominationsDomain},
       ae \in {None, Some([index |-> 5, start |-> None]), Some([index |-> 5, start |-> Some(1000)])},
       du \in {None, Some(10)},
       es \in {Some("CLOSED"), Some("OPEN")},
       ex \in {None, Some(ExposureV1(500))},
       sc \in {CompleteEra, [CompleteEra EXCEPT !.prefs["V1"] = None]},
       f \in NominatorFetches \cup {"none"}}

\* getNominationStatus and getTransferableBalance as public queries, on the
\* short exposure lists and the account records of their own specifications.
DetailsArgs ==
    {[op |-> "getValidatorDetails", accountId |-> "V1", chain |-> c] : c \in ValidatorChains}
    \cup
    {[op |-> "getNominatorDetails", accountId |-> "N", validatorIds |-> vi, chain |-> c]
     : vi \in {None, Some(<<"V2">>)}, c \in NominatorChains}
    \cup
    {a \in StatusArgs : IsSome(a.exposure) => Len(a.exposure.v.others) <= 2}
    \cup
    {a \in BalanceArgs : IsSome(a.accountInfo) => a.accountInfo.v.free = 1000}

InitDetails ==
    /\ pc = "call"
    /\ args \in DetailsArgs
    /\ result = Pending
    /\ NoClient

CallGetValidatorDetails ==
    /\ pc = "call"
    /\ args.op = "getValidatorDetails"
    /\ result' = getValidatorDetails(args.accountId, args.chain)
    /\ pc' = "done"
    /\ UNCHANGED <<args, nodeVars>>

CallGetNominatorDetails ==
    /\ pc = "call"
    /\ args.op = "getNominatorDetails"
    /\ \E firstRejected \in PromiseAllMembers :
         result' = getNominatorDetails(args.accountId, args.validatorIds, args.chain,
                                       firstRejected)
    /\ pc' = "done"
    /\ UNCHANGED <<args, nodeVars>>

NextDetails ==
    \/ CallGetValidatorDetails
    \/ CallGetNominatorDetails
    \/ CallGetNominationStatus
    \/ CallGetTransferableBalance

SpecDetails == InitDetails /\ [][NextDetails]_vars

(***************************************************************************)
(* getStakingDetails on its own (lines 254-288), on arguments that need    *)
(* not come from one consistent join: the ledger, the nominations, the     *)
(* active era and the era duration it is handed, and a node whose answers  *)
(* to its own fetches (the exposure, the era duration, the era rewards)    *)
(* may fail or be absent.                                                  *)
(***************************************************************************)
StakingDetailsChains ==
    {WithFailure([BaseChain EXCEPT !.nominations = nm, !.expectedEraDuration = du], f)
     : nm \in {None} \cup {Some(n) : n \in NominationsDomain},
       du \in {None, Some(10)},
       f \in {"none", "stakers", "expectedEraDuration", "eraReward"}}

StakingDetailsArgs ==
    {[op |-> "getStakingDetails", accountId |-> "N", stakingLedger |-> lg,
      nominations |-> nm, activeEra |-> ae, expectedEraDuration |-> du, chain |-> c]
     : lg \in {None} \cup {Some(l) : l \in Ledgers},
       nm \in {None} \cup {Some(n) : n \in NominationsDomain},
       ae \in {None, Some([index |-> 5, start |-> Some(1000)])},
       du \in {None, Some(10)},
       c \in StakingDetailsChains}

InitStakingDetails ==
    /\ pc = "call"
    /\ args \in StakingDetailsArgs
    /\ result = Pending
    /\ NoClient

CallGetStakingDetails ==
    /\ pc = "call"
    /\ args.op = "getStakingDetails"
    /\ \E firstRejected \in PromiseAllMembers :
         result' = getStakingDetails(args.accountId, args.stakingLedger, args.nominations,
                                     args.activeEra, args.expectedEraDuration, args.chain,
                                     firstRejected)
    /\ pc' = "done"
    /\ UNCHANGED <<args, nodeVars>>

NextStakingDetails == CallGetStakingDetails

SpecStakingDetails == InitStakingDetails /\ [][NextStakingDetails]_vars

\* A fragment of getNominatorDetails' join failed or is absent: one of the
\* seven fetches failed, or the active era or the expected era duration
\* came back null.  (The two balances are numbers whenever their fetch
\* succeeds: an account without a record has balance 0.)
JoinFetchFailed(chain) ==
    \/ IsFailed(chain.accountInfo) \/ IsFailed(chain.ledger) \/ IsFailed(chain.nominations)
    \/ IsFailed(chain.activeEra) \/ IsFailed(chain.expectedEraDuration)
    \/ IsFailed(chain.existentialDeposit)

JoinFragmentAbsent(chain) == IsNone(chain.activeEra) \/ IsNone(chain.expectedEraDuration)

\* C7: getNominatorDetails is all-or-nothing: when a fetch of its join
\* fails, or the active era or the expected era duration is absent, the call
\* is rejected and no details are returned; an absent fragment rejects with
\* 'Could not fetch nominator details.'.
NominatorDetailsAllOrNothing ==
    (pc = "done" /\ args.op = "getNominatorDetails")
    => /\ (JoinFetchFailed(args.chain) \/ JoinFragmentAbsent(args.chain))
            => result.tag = "rejected"
       /\ (~JoinFetchFailed(args.chain) /\ JoinFragmentAbsent(args.chain))
            => result = Rejected("Could not fetch nominator details.")
       /\ result.tag = "resolved"
            => /\ result.v.balance = Defined(getBalance(args.chain.accountInfo).v)
               /\ IsSome(args.chain.activeEra) /\ IsSome(args.chain.expectedEraDuration)

\* The active era is absent, every other fetch succeeded and the account has
\* no staking ledger (so nothing later in the call reads the era): the call
\* was rejected.
NominatorDetailsEraAbsentReached ==
    /\ pc = "done" /\ args.op = "getNominatorDetails"
    /\ IsNone(args.chain.activeEra) /\ IsSome(args.chain.expectedEraDuration)
    /\ ~JoinFetchFailed(args.chain)
    /\ IsNone(args.chain.ledger)
    /\ IsSome(args.chain.electionStatus)
    /\ result = Rejected("Could not fetch nominator details.")

\* The node's data of the last era (the one before the active era) and of
\* the era before that one.
LastEra(chain) == chain.eras[chain.activeEra.v.index - 1]
EraBeforeLast(chain) == chain.eras[chain.activeEra.v.index - 2]

\* A fetch of the last era's reward data for validator `a' failed: the
\* era's reward, the reward of the era before it (asked for only when the
\* last era has none), the reward points, the clipped exposure, the prefs.
LastEraRewardFetchFailed(chain, a) ==
    \/ IsFailed(LastEra(chain).reward)
    \/ IsNone(LastEra(chain).reward) /\ IsFailed(EraBeforeLast(chain).reward)
    \/ IsFailed(LastEra(chain).rewardPoints)
    \/ IsFailed(LastEra(chain).clipped[a])
    \/ IsFailed(LastEra(chain).prefs[a])

\* The fetches of getValidatorDetails whose failure rejects the call: every
\* fetch but those of the identity.
ValidatorFetchFailed(chain) ==
    \/ IsFailed(chain.activeEra)
    \/ /\ IsSome(chain.activeEra)
       /\ \/ IsFailed(chain.validators) \/ IsFailed(chain.stakers["V1"])
          \/ IsFailed(chain.eras[chain.activeEra.v.index].prefs["V1"])
          \/ LastEraRewardFetchFailed(chain, "V1")

\* A fragment of the last era's reward data for validator `a' is absent:
\* neither the last era nor the era before it has a reward, or the reward
\* points, the clipped exposure or the prefs are absent.
LastEraRewardFragmentAbsent(chain, a) ==
    \/ IsNone(LastEra(chain).reward) /\ IsNone(EraBeforeLast(chain).reward)
    \/ IsNone(LastEra(chain).rewardPoints)
    \/ IsNone(LastEra(chain).clipped[a])
    \/ IsNone(LastEra(chain).prefs[a])

\* The last era's reward points list no account other than `a'.
NoOtherAccountInRewardPoints(chain, a) ==
    /\ IsSome(LastEra(chain).rewardPoints)
    /\ \A i \in 1..Len(LastEra(chain).rewardPoints.v.individual) :
         LastEra(chain).rewardPoints.v.individual[i].who = a

\* An identity is obtained for the account: one is on record for it, or
\* none is and one is on record for its parent account.  A failed fetch of
\* either (Failed is neither Some nor None) obtains none.
IdentityKnown(chain, a) ==
    \/ IsSome(chain.identityOf[a])
    \/ /\ IsNone(chain.identityOf[a]) /\ IsSome(chain.superOf[a])
       /\ IsSome(chain.identityOf[chain.superOf[a].v])

AllFieldsPopulated(r) == \A f \in DOMAIN r : r[f] # undefined

\* C8 as stated: a public query fails or returns a result with every
\* field populated (a resolved value is never undefined, nor is any field
\* of a resolved record).
ResolvedResultFullyPopulated ==
    (pc = "done" /\ result.tag = "resolved")
    => CASE args.op = "getValidatorDetails" -> AllFieldsPopulated(result.v)
         [] args.op = "getNominatorDetails" -> AllFieldsPopulated(result.v)
         [] args.op = "getNominationStatus" -> result.v # undefined
         [] args.op = "getTransferableBalance" -> result.v \in Int

\* C8: a public query fails or returns a result, and what a returned
\* result leaves undefined is exactly this.  getValidatorDetails is
\* rejected exactly when one of its fetches other than the identity's
\* fails, never by an absent fragment; address and nominators are always
\* populated; name is undefined exactly when the active era is absent or
\* no identity is obtained (a fetch of the identity failed, or neither the
\* account nor its parent has one on record); status, ownStash and
\* totalStakingBalance, and commission are undefined exactly when the
\* active era or, in turn, the validator set, the exposure, the active
\* era's validator prefs is absent; lastEraReward is undefined exactly
\* when the active era or a fragment of the last era's reward data is
\* absent, or the last era's reward points list no account other than the
\* validator (whether they list the validator itself plays no part).
\* getNominatorDetails leaves stakingDetails undefined exactly when the
\* account has no staking ledger; getNominationStatus resolves to undefined
\* exactly when the nominator does not nominate the validator;
\* getTransferableBalance resolves to a number.
ResolvedResultPopulatedButAbsentFragments ==
    pc = "done"
    => /\ result.tag \in {"resolved", "rejected"}
       /\ args.op = "getValidatorDetails"
            => LET c == args.chain
                   eraAbsent == IsNone(c.activeEra)
                   r == result.v
               IN /\ result.tag = "rejected" <=> ValidatorFetchFailed(c)
                  /\ result.tag = "resolved"
                       => /\ r.address = Defined("V1")
                          /\ r.nominators # undefined
                          /\ r.name = undefined <=> (eraAbsent \/ ~IdentityKnown(c, "V1"))
                          /\ r.status = undefined <=> (eraAbsent \/ IsNone(c.validators))
                          /\ r.ownStash = undefined <=> (eraAbsent \/ IsNone(c.stakers["V1"]))
                          /\ r.totalStakingBalance = undefined
                               <=> (eraAbsent \/ IsNone(c.stakers["V1"]))
                          /\ r.commission = undefined
                               <=> (eraAbsent \/ IsNone(c.eras[5].prefs["V1"]))
                          /\ r.lastEraReward = undefined
                               <=> (\/ eraAbsent
                                    \/ LastEraRewardFragmentAbsent(c, "V1")
                                    \/ NoOtherAccountInRewardPoints(c, "V1"))
       /\ (args.op = "getNominatorDetails" /\ result.tag = "resolved")
            => /\ result.v.address # undefined /\ result.v.balance # undefined
               /\ result.v.delegatees # undefined /\ result.v.availableActions # undefined
               /\ result.v.stakingDetails = undefined <=> IsNone(args.chain.ledger)
       /\ (args.op = "getNominationStatus" /\ result.tag = "resolved")
            => (result.v = undefined
                  <=> (IsNone(args.nominations)
                         \/ ~Includes(args.nominations.v.targets, args.validator)))
       /\ (args.op = "getTransferableBalance" /\ result.tag = "resolved")
            => result.v \in Int

\* getValidatorDetails returned a partly populated result: the validator
\* set was absent and no identity is on record, the exposure was present.
ValidatorDetailsPartlyPopulatedReached ==
    /\ pc = "done" /\ args.op = "getValidatorDetails"
    /\ result.tag = "resolved"
    /\ IsSome(args.chain.activeEra)
    /\ result.v.status = undefined /\ result.v.name = undefined
    /\ result.v.ownStash # undefined

(***************************************************************************)
(* SubstrateNodeClient: send, the response cache and initApi               *)
(* (src/unnamed/part_002:51-64 and 270-370).                               *)
(*                                                                         *)
(* Tasks are the application's calls of public client methods.  A step is  *)
(* one synchronous run of code between two suspension points.  `owners'    *)
(* of a send are the tasks and the two sends of initApi.  The callback of  *)
(* `cache.get(key).catch(...)' runs as a microtask, after the synchronous  *)
(* run that called send has ended: microtasks holds these callbacks in     *)
(* order, and a response or a clock tick only happens when none is left.   *)
(* The application may call the client from a promise callback of its own, *)
(* so between any two steps.  The callback also runs when cache.get has    *)
(* handed out the in-flight promise of another send and that request       *)
(* fails.  The continuation of an await may run at any time after the      *)
(* awaited promise has settled.                                            *)
(*                                                                         *)
(* The Cache class is not part of the sources at hand; cacheGet, cacheSave *)
(* and cacheSettled follow its documented behaviour: a key holds the       *)
(* in-flight promise of a request and, once that settles with a value that *)
(* is to be cached, the value for expirationTime milliseconds.             *)
(***************************************************************************)
CACHE_DEFAULT_EXPIRATION_TIME == 3000

\* parseInt('6174656d', 16)
MAGIC_NUMBER == 1635018093

\* Bounds: the number of concurrent tasks and of clock ticks; a tick is as
\* long as the default expiration time, and so outlasts every window.
MaxTasks == 2
MaxTicks == 1

\* Bound: the number of times the node's runtime is upgraded.
MaxUpgrades == 1

\* The runtime the node starts with (its spec version), no upgrade yet.
InitialRuntime == [specVersion |-> 30, upgrades |-> 0, since |-> {}]

TaskName(i) == "t" \o ToString(i)
Tasks == {TaskName(i) : i \in 1..MaxTasks}

\* Tasks are interchangeable: they are started in the order of their names.
MayStart(t) ==
    \A i \in 1..MaxTasks : \A j \in 1..(i - 1) :
        t = TaskName(i) => tasks[TaskName(j)].pc # "idle"
InitOwners == {"initMetadata", "initRuntimeVersion"}
Owners == Tasks \cup InitOwners

\* The public methods the tasks call, and the send each of them makes:
\* getTransferFeeEstimate (line 88), getRuntimeVersion (line 122) and
\* submitTransaction (line 271) call send directly, getAccountInfo (line
\* 67) goes through fromStorage and getExistentialDeposit (line 73)
\* through getConstant.
DirectOps == {"getTransferFeeEstimate", "getRuntimeVersion", "submitTransaction"}
InitOps == {"getAccountInfo", "getExistentialDeposit"}
Ops == DirectOps \cup InitOps

RequestOf(op) ==
    CASE op = "getTransferFeeEstimate" ->
           [module |-> "payment", method |-> "queryInfo", params |-> <<"aa">>,
            config |-> [allowCache |-> TRUE]]
      [] op = "getRuntimeVersion" ->
           [module |-> "state", method |-> "getRuntimeVersion", params |-> <<>>,
            config |-> [allowCache |-> TRUE]]
      [] op = "submitTransaction" ->
           [module |-> "author", method |-> "submitExtrinsic", params |-> <<"aa">>,
            config |-> [allowCache |-> FALSE]]
      [] op = "getAccountInfo" ->
           [module |-> "state", method |-> "getStorage", params |-> <<"26aab9">>,
            config |-> [allowCache |-> TRUE]]

\* params.join('')
RECURSIVE join(_)
join(params) == IF params = <<>> THEN "" ELSE Head(params) \o join(Tail(params))

\* const endpoint = `${module}_${method}`; const key = `${endpoint}$${params.join('')}`
keyOf(module, method, params) == (module \o "_" \o method) \o "$" \o join(params)

MetadataKey == keyOf("state", "getMetadata", <<>>)
RuntimeVersionKey == keyOf("state", "getRuntimeVersion", <<>>)

Keys ==
    {MetadataKey, RuntimeVersionKey}
    \cup {keyOf(RequestOf(op).module, RequestOf(op).method, RequestOf(op).params)
          : op \in Ops \ {"getExistentialDeposit"}}

\* What the node may answer.  The metadata blob is given by what decode
\* reads from it: the magic number, the version and (decorated) the
\* Babe.ExpectedBlockTime constant.
MetadataBlobs ==
    {[magicNumber |-> MAGIC_NUMBER, version |-> 12, expectedBlockTime |-> 6000],
     [magicNumber |-> MAGIC_NUMBER, version |-> 11, expectedBlockTime |-> 2],
     [magicNumber |-> 0, version |-> 12, expectedBlockTime |-> 6000]}

RpcError == [tag |-> "error"]
RpcResult(v) == [tag |-> "result", v |-> v]
RpcPending == [tag |-> "pending"]
RpcNone == [tag |-> "none"]

ResponsesOf(key) ==
    IF key = MetadataKey THEN {RpcError} \cup {RpcResult(b) : b \in MetadataBlobs}
    ELSE IF key = RuntimeVersionKey
         THEN {RpcError, RpcResult([specVersion |-> runtime.specVersion])}
    ELSE {RpcError, RpcResult("0x01")}

\* Metadata.decode with a switch that takes every version for version 12.
decodeAnyVersion(runtimeVersion, raw) ==
    IF raw.magicNumber # MAGIC_NUMBER
    THEN [tag |-> "thrown", error |-> "InvalidValueError"]
    ELSE [tag |-> "decoded",
          v |-> [version |-> raw.version, expectedBlockTime |-> raw.expectedBlockTime]]

\* Metadata.decode (lines 385-405) and assertMagicNumber (lines 407-411)
decode(runtimeVersion, raw) ==
    IF raw.magicNumber # MAGIC_NUMBER
    THEN [tag |-> "thrown", error |-> "InvalidValueError"]
    ELSE IF raw.version = 12 \/ raw.version = 11
         THEN [tag |-> "decoded",
               v |-> [version |-> raw.version, expectedBlockTime |-> raw.expectedBlockTime]]
    ELSE [tag |-> "thrown", error |-> "UnsupportedError"]

\* Cache.get: the in-flight promise of the key, else its value while it is
\* valid, else a rejection.
cacheGet(key) ==
    IF cache.promises[key] # "none"
    THEN [tag |-> "promise", rpc |-> cache.promises[key]]
    ELSE IF IsSome(cache.values[key]) /\ cache.values[key].v.validUntil > now
         THEN [tag |-> "value", rpc |-> cache.values[key].v.rpc]
    ELSE [tag |-> "rejected"]

\* Cache.save(key, promise, { cacheValue }): the promise is registered as
\* the key's in-flight promise when its value is to be cached.
cacheSave(key, owner, cacheValue) ==
    IF cacheValue THEN [cache EXCEPT !.promises[key] = owner] ELSE cache

\* The saved promise settles: it stops being in flight and a value that
\* is to be cached is kept until now + expirationTime.
cacheSettled(key, owner, response, cacheValue) ==
    [cache EXCEPT
       !.promises[key] = IF @ = owner THEN "none" ELSE @,
       !.values[key] = IF cacheValue /\ response.tag = "result"
                       THEN Some([rpc |-> owner, validUntil |-> now + cache.expirationTime])
                       ELSE @]

\* waiters: the sends that cache.get handed this send's in-flight promise,
\* in the order they attached their catch callback to it.
IdleSend ==
    [state |-> "idle", key |-> "", allowCache |-> TRUE, rpc |-> "none", waiters |-> <<>>]

\* The send of `owner' after cache.get(key) has answered `got': the catch
\* callback is queued when cache.get rejected, and attached to the promise
\* of the request in flight when cache.get handed that out.
sendAfterGet(st, owner, key, config, got) ==
    IF got.tag = "rejected"
    THEN [sends |-> [st.sends EXCEPT ![owner] = [state |-> "missed", key |-> key,
                                                 allowCache |-> config.allowCache,
                                                 rpc |-> "none", waiters |-> <<>>]],
          microtasks |-> Append(st.microtasks, owner)]
    ELSE IF got.tag = "promise"
    THEN [sends |-> [st.sends EXCEPT ![owner] = [state |-> "cached", key |-> key,
                                                 allowCache |-> config.allowCache,
                                                 rpc |-> got.rpc, waiters |-> <<>>],
                                     ![got.rpc].waiters = Append(@, owner)],
          microtasks |-> st.microtasks]
    ELSE [sends |-> [st.sends EXCEPT ![owner] = [state |-> "cached", key |-> key,
                                                 allowCache |-> config.allowCache,
                                                 rpc |-> got.rpc, waiters |-> <<>>]],
          microtasks |-> st.microtasks]

(***************************************************************************)
(* send (lines 349-370), its synchronous part: the key is computed and     *)
(* cache.get(key) is called; on a rejection the catch callback is queued.  *)
(* st is [sends, microtasks]; the value is st after the call.              *)
(***************************************************************************)
send(st, owner, module, method, params, config) ==
    sendAfterGet(st, owner, keyOf(module, method, params), config,
                 cacheGet(keyOf(module, method, params)))

\* What the promise returned by an owner's send has settled with.
SendOutcome(owner) ==
    IF sends[owner].state \in {"idle", "missed"} THEN RpcPending
    ELSE rpcs[sends[owner].rpc]

\* `!this.initApiPromise' (line 319), and the same test always true.
shouldInitAlways(initApiPromise) == TRUE

shouldInit(initApiPromise) == initApiPromise = "null"

\* The promises of initApi: executorPromise is `new Promise(async ...)',
\* local is the constant initApiPromise (its .then), caught is
\* `initApiPromise.catch(...)'.  client.initApiPromise names the promise
\* the field holds: "null", "caught", "local" or "resolved".
IdleInit ==
    [count |-> 0, executor |-> "idle", executorPromise |-> "none", local |-> "none",
     caught |-> "none", thenRan |-> FALSE, blockTime |-> None, cacheSet |-> FALSE]

StartedInit(count) ==
    [count |-> count, executor |-> "awaiting", executorPromise |-> "pending",
     local |-> "pending", caught |-> "pending", thenRan |-> FALSE, blockTime |-> None,
     cacheSet |-> FALSE]

\* The sends of the executor (line 321), on st = [sends, microtasks].
initSends(st) ==
    send(send(st, "initMetadata", "state", "getMetadata", <<>>, [allowCache |-> TRUE]),
         "initRuntimeVersion", "state", "getRuntimeVersion", <<>>, [allowCache |-> TRUE])

PromiseState(name) ==
    CASE name = "caught" -> init.caught
      [] name = "local" -> init.local
      [] name = "resolved" -> "resolved"
      [] name = "null" -> "none"

IdleTask ==
    [op |-> "none", pc |-> "idle", awaits |-> "null", readDuring |-> "none",
     overlaps |-> {}, result |-> RpcPending]

\* A client after construction (lines 54-64): no metadata, no
\* initialization, an empty cache with the default expiration time.
FreshClient ==
    /\ now = 0
    /\ cache = [expirationTime |-> CACHE_DEFAULT_EXPIRATION_TIME,
                promises |-> [k \in Keys |-> "none"],
                values |-> [k \in Keys |-> None]]
    /\ client = [metadata |-> undefined, runtimeVersion |-> undefined,
                 initApiPromise |-> "null"]
    /\ init = IdleInit
    /\ sends = [o \in Owners |-> IdleSend]
    /\ rpcs = [o \in Owners |-> RpcNone]
    /\ rpcLog = EmptyBag
    /\ microtasks = <<>>
    /\ tasks = [t \in Tasks |-> IdleTask]
    /\ runtime = InitialRuntime

InitNode ==
    /\ pc = "client"
    /\ args = [op |-> "SubstrateNodeClient"]
    /\ result = Pending
    /\ FreshClient

\* The application calls a method that calls send directly.  The tasks
\* whose identical request is still unanswered are recorded in overlaps.
InvokeDirect(t, op) ==
    /\ tasks[t].pc = "idle"
    /\ MayStart(t)
    /\ LET st == send([sends |-> sends, microtasks |-> microtasks], t, RequestOf(op).module,
                      RequestOf(op).method, RequestOf(op).params, RequestOf(op).config)
       IN /\ sends' = st.sends
          /\ microtasks' = st.microtasks
    /\ tasks' = [tasks EXCEPT ![t] =
                   [IdleTask EXCEPT !.op = op, !.pc = "awaitSend",
                                    !.overlaps = {u \in Tasks \ {t} :
                                                    /\ tasks[u].op = op
                                                    /\ tasks[u].pc = "awaitSend"
                                                    /\ SendOutcome(u).tag = "pending"}]]
    /\ UNCHANGED <<pc, args, result, runtime, now, cache, client, init, rpcs, rpcLog>>

(***************************************************************************)
(* The application calls a method that goes through fromStorage or         *)
(* getConstant: the synchronous part of `await this.initApi()' (lines      *)
(* 318-341).  The first call runs the executor up to its await and stores  *)
(* the caught promise; every call awaits the promise the field then holds. *)
(***************************************************************************)
InvokeWithInit(t, op) ==
    /\ tasks[t].pc = "idle"
    /\ MayStart(t)
    /\ IF shouldInit(client.initApiPromise)
       THEN /\ sends' = initSends([sends |-> sends, microtasks |-> microtasks]).sends
            /\ microtasks' = initSends([sends |-> sends, microtasks |-> microtasks]).microtasks
            /\ init' = StartedInit(init.count + 1)
            /\ client' = [client EXCEPT !.initApiPromise = "caught"]
       ELSE UNCHANGED <<sends, microtasks, init, client>>
    /\ tasks' = [tasks EXCEPT ![t] =
                   [IdleTask EXCEPT !.op = op, !.pc = "awaitInit",
                                    !.awaits = client'.initApiPromise]]
    /\ UNCHANGED <<pc, args, result, runtime, now, cache, rpcs, rpcLog>>

\* The callback of cache.get(key).catch (lines 359-369): axios.post, then
\* cache.save of the request's promise.
SendCatch ==
    /\ microtasks # <<>>
    /\ rpcs' = [rpcs EXCEPT ![Head(microtasks)] = RpcPending]
    /\ rpcLog' = rpcLog (+) SetToBag({[key |-> sends[Head(microtasks)].key,
                                       by |-> Head(microtasks)]})
    /\ cache' = cacheSave(sends[Head(microtasks)].key, Head(microtasks),
                          sends[Head(microtasks)].allowCache)
    /\ sends' = [sends EXCEPT ![Head(microtasks)].state = "posted",
                              ![Head(microtasks)].rpc = Head(microtasks)]
    /\ microtasks' = Tail(microtasks)
    /\ UNCHANGED <<pc, args, result, runtime, now, client, init, tasks>>

\* The sends after the request of `owner' has been answered: on an error
\* the sends waiting on its promise are back to where cache.get rejects.
sendsAfterResponse(owner, response) ==
    [o \in Owners |->
       IF o = owner THEN [sends[o] EXCEPT !.waiters = <<>>]
       ELSE IF response.tag = "error" /\ Includes(sends[owner].waiters, o)
            THEN [sends[o] EXCEPT !.state = "missed", !.rpc = "none"]
            ELSE sends[o]]

\* The node answers a request (lines 360-366): a result, or an error that
\* rejects the request's promise.  The rejection runs the catch callbacks
\* (line 358) of the sends that were handed this promise by cache.get.
Respond(owner) ==
    /\ microtasks = <<>>
    /\ rpcs[owner].tag = "pending"
    /\ \E response \in ResponsesOf(sends[owner].key) :
         /\ rpcs' = [rpcs EXCEPT ![owner] = response]
         /\ cache' = cacheSettled(sends[owner].key, owner, response, sends[owner].allowCache)
         /\ sends' = sendsAfterResponse(owner, response)
         /\ microtasks' = IF response.tag = "error" THEN sends[owner].waiters ELSE <<>>
    /\ UNCHANGED <<pc, args, result, runtime, now, client, init, rpcLog, tasks>>

(***************************************************************************)
(* The executor of initApi resumes after `await Promise.all' (lines        *)
(* 321-327).  Promise.all rejects as soon as the metadata request rejects  *)
(* (getRuntimeVersion never rejects, line 123): the executor throws and    *)
(* its promise is left unsettled.  Otherwise a missing runtime version     *)
(* rejects the promise, and the executor goes on to decode the metadata.   *)
(***************************************************************************)
ExecutorResume ==
    /\ init.executor = "awaiting"
    /\ \/ SendOutcome("initMetadata").tag = "error"
       \/ /\ SendOutcome("initMetadata").tag = "result"
          /\ SendOutcome("initRuntimeVersion").tag \in {"result", "error"}
    /\ LET metadataEncoded == SendOutcome("initMetadata")
           runtimeVersion == IF SendOutcome("initRuntimeVersion").tag = "result"
                             THEN Some(SendOutcome("initRuntimeVersion").v)
                             ELSE None
       IN IF metadataEncoded.tag = "error"
          THEN /\ init' = [init EXCEPT !.executor = "threw"]
               /\ UNCHANGED client
          ELSE IF decode(runtimeVersion, metadataEncoded.v).tag = "thrown"
               THEN /\ init' = [init EXCEPT !.executor = "threw",
                                            !.executorPromise = IF IsSome(runtimeVersion)
                                                                THEN @ ELSE "rejected"]
                    /\ UNCHANGED client
               ELSE /\ client' = [client EXCEPT
                                    !.metadata = Defined(decode(runtimeVersion,
                                                                metadataEncoded.v).v),
                                    !.runtimeVersion = IF IsSome(runtimeVersion)
                                                       THEN Defined(runtimeVersion.v.specVersion)
                                                       ELSE undefined]
                    /\ init' = [init EXCEPT !.executor = "returned",
                                            !.executorPromise = IF IsSome(runtimeVersion)
                                                                THEN "resolved"
                                                                ELSE "rejected"]
    /\ UNCHANGED <<pc, args, result, runtime, now, cache, sends, rpcs, rpcLog, microtasks,
                   tasks>>

\* The .then callback up to its await (lines 329-331): the field is set to
\* a resolved promise and initCache is started.
ThenCallback ==
    /\ init.executorPromise = "resolved"
    /\ ~init.thenRan
    /\ init' = [init EXCEPT !.thenRan = TRUE]
    /\ client' = [client EXCEPT !.initApiPromise = "resolved"]
    /\ UNCHANGED <<pc, args, result, runtime, now, cache, sends, rpcs, rpcLog, microtasks,
                   tasks>>

\* The getConstant of initCache resumes after its `await this.initApi()'
\* (lines 312-315) and reads the constant from this.metadata.
InitCacheRead ==
    /\ init.thenRan
    /\ init.blockTime = None
    /\ init' = [init EXCEPT !.blockTime = Some(client.metadata.v.expectedBlockTime)]
    /\ UNCHANGED <<pc, args, result, runtime, now, cache, client, sends, rpcs, rpcLog,
                   microtasks, tasks>>

\* initCache (lines 343-347) resumes with the constant and sets the
\* expiration time (line 346).
InitCacheDone ==
    /\ IsSome(init.blockTime)
    /\ ~init.cacheSet
    /\ cache' = [cache EXCEPT !.expirationTime = init.blockTime.v \div 3]
    /\ init' = [init EXCEPT !.cacheSet = TRUE]
    /\ UNCHANGED <<pc, args, result, runtime, now, client, sends, rpcs, rpcLog, microtasks,
                   tasks>>

\* The .then callback resumes after `await this.initCache()' (line 331)
\* and returns: the local promise (lines 320-332) resolves.
ThenReturned ==
    /\ init.cacheSet
    /\ init.local = "pending"
    /\ init' = [init EXCEPT !.local = "resolved"]
    /\ UNCHANGED <<pc, args, result, runtime, now, cache, client, sends, rpcs, rpcLog,
                   microtasks, tasks>>

\* The local promise has resolved: the promise `initApiPromise.catch(...)'
\* (line 334) resolves with it, its callback is not run.
CaughtResolved ==
    /\ init.local = "resolved"
    /\ init.caught = "pending"
    /\ init' = [init EXCEPT !.caught = "resolved"]
    /\ UNCHANGED <<pc, args, result, runtime, now, cache, client, sends, rpcs, rpcLog,
                   microtasks, tasks>>

\* The executor's promise was rejected: the .then callback (lines 329-332)
\* is skipped and the local promise rejects.
InitRejected ==
    /\ init.executorPromise = "rejected"
    /\ init.local = "pending"
    /\ init' = [init EXCEPT !.local = "rejected"]
    /\ UNCHANGED <<pc, args, result, runtime, now, cache, client, sends, rpcs, rpcLog,
                   microtasks, tasks>>

\* The catch callback (lines 334-337) runs on the rejected local promise:
\* it stores that promise in the field, and the caught promise resolves.
CatchCallback ==
    /\ init.local = "rejected"
    /\ init.caught = "pending"
    /\ init' = [init EXCEPT !.caught = "resolved"]
    /\ client' = [client EXCEPT !.initApiPromise = "local"]
    /\ UNCHANGED <<pc, args, result, runtime, now, cache, sends, rpcs, rpcLog, microtasks,
                   tasks>>

\* `await this.initApi()' has settled; the same test always true.
initAwaitedAlways(awaits) == TRUE

initAwaited(awaits) == PromiseState(awaits) \in {"resolved", "rejected"}

(***************************************************************************)
(* fromStorage (lines 278-296) and getConstant (lines 308-316) resume      *)
(* after `await this.initApi()': a rejected promise rejects the call;      *)
(* otherwise this.metadata is read, and fromStorage awaits the hash of the *)
(* storage entry (line 292).                                               *)
(***************************************************************************)
AfterInit(t) ==
    /\ tasks[t].pc = "awaitInit"
    /\ initAwaited(tasks[t].awaits)
    /\ IF PromiseState(tasks[t].awaits) = "rejected"
       THEN /\ tasks' = [tasks EXCEPT ![t].pc = "done", ![t].result = RpcError]
            /\ UNCHANGED <<sends, microtasks>>
       ELSE IF client.metadata = undefined
            THEN /\ tasks' = [tasks EXCEPT
                                ![t].pc = "done", ![t].readDuring = init.executor,
                                ![t].result = IF tasks[t].op = "getAccountInfo"
                                              THEN RpcResult("null") ELSE RpcError]
                 /\ UNCHANGED <<sends, microtasks>>
            ELSE IF tasks[t].op = "getAccountInfo"
                 THEN /\ tasks' = [tasks EXCEPT ![t].pc = "awaitHash",
                                                ![t].readDuring = init.executor]
                      /\ UNCHANGED <<sends, microtasks>>
                 ELSE /\ tasks' = [tasks EXCEPT ![t].pc = "done",
                                                ![t].readDuring = init.executor,
                                                ![t].result = RpcResult("constant")]
                      /\ UNCHANGED <<sends, microtasks>>
    /\ UNCHANGED <<pc, args, result, runtime, now, cache, client, init, rpcs, rpcLog>>

\* fromStorage resumes after `await storageEntry.hash(...args)' and calls
\* send (lines 292-293).
HashDone(t) ==
    /\ tasks[t].pc = "awaitHash"
    /\ tasks' = [tasks EXCEPT ![t].pc = "awaitSend"]
    /\ LET st == send([sends |-> sends, microtasks |-> microtasks], t,
                      RequestOf(tasks[t].op).module, RequestOf(tasks[t].op).method,
                      RequestOf(tasks[t].op).params, RequestOf(tasks[t].op).config)
       IN /\ sends' = st.sends
          /\ microtasks' = st.microtasks
    /\ UNCHANGED <<pc, args, result, runtime, now, cache, client, init, rpcs, rpcLog>>

\* The promise of a task's send has settled: the task settles with it;
\* getRuntimeVersion turns a rejection into null (line 123).
SendSettled(t) ==
    /\ tasks[t].pc = "awaitSend"
    /\ SendOutcome(t).tag \in {"result", "error"}
    /\ tasks' = [tasks EXCEPT ![t].pc = "done",
                              ![t].result = IF /\ tasks[t].op = "getRuntimeVersion"
                                               /\ SendOutcome(t).tag = "error"
                                            THEN RpcResult("null")
                                            ELSE SendOutcome(t)]
    /\ UNCHANGED <<pc, args, result, runtime, now, cache, client, init, sends, rpcs, rpcLog,
                   microtasks>>

\* A promise continuation of the client is ready to run: one of the steps
\* ExecutorResume, ThenCallback, InitCacheRead, InitCacheDone, ThenReturned,
\* CaughtResolved, InitRejected, CatchCallback, AfterInit and SendSettled is
\* enabled.  None of them reads the clock.
ContinuationReady ==
    \/ /\ init.executor = "awaiting"
       /\ \/ SendOutcome("initMetadata").tag = "error"
          \/ /\ SendOutcome("initMetadata").tag = "result"
             /\ SendOutcome("initRuntimeVersion").tag \in {"result", "error"}
    \/ init.executorPromise = "resolved" /\ ~init.thenRan
    \/ init.thenRan /\ init.local = "pending"
    \/ init.executorPromise = "rejected" /\ init.local = "pending"
    \/ init.local \in {"resolved", "rejected"} /\ init.caught = "pending"
    \/ \E t \in Tasks : tasks[t].pc = "awaitInit" /\ initAwaited(tasks[t].awaits)
    \/ \E t \in Tasks : /\ tasks[t].pc = "awaitSend"
                         /\ SendOutcome(t).tag \in {"result", "error"}

\* Time passes, by one default cache lifetime.  The clock is read only to
\* date and to test cached values, so a tick is taken only while it can
\* change a later cache.get: while a cached value is valid and a task has
\* a call of send ahead of it.  The ready continuations, which take no
\* time on that scale, have run before.
Tick ==
    /\ microtasks = <<>>
    /\ ~ContinuationReady
    /\ \E k \in Keys : IsSome(cache.values[k]) /\ cache.values[k].v.validUntil > now
    /\ \E t \in Tasks : tasks[t].pc \in {"idle", "awaitInit", "awaitHash"}
    /\ now < MaxTicks * CACHE_DEFAULT_EXPIRATION_TIME
    /\ now' = now + CACHE_DEFAULT_EXPIRATION_TIME
    /\ UNCHANGED <<pc, args, result, runtime, cache, client, init, sends, rpcs, rpcLog,
                   microtasks, tasks>>

\* The initialization has succeeded: initCache has run to its end.
InitSucceeded == init.local = "resolved"

\* The node's runtime is upgraded after the client has initialized: from
\* now on state_getRuntimeVersion reports the next spec version.  The
\* tasks not yet started are those issued after the change; an upgrade
\* after the last task has started is seen by none and is left out, and
\* so is one that follows another with no task started in between.
RuntimeUpgrade ==
    /\ microtasks = <<>>
    /\ InitSucceeded
    /\ \E t \in Tasks : tasks[t].pc = "idle"
    /\ runtime.upgrades < MaxUpgrades
    /\ runtime.upgrades = 0 \/ runtime.since # {t \in Tasks : tasks[t].pc = "idle"}
    /\ runtime' = [specVersion |-> runtime.specVersion + 1, upgrades |-> runtime.upgrades + 1,
                 since |-> {t \in Tasks : tasks[t].pc = "idle"}]
    /\ UNCHANGED <<pc, args, result, now, cache, client, init, sends, rpcs, rpcLog,
                   microtasks, tasks>>

NextNode ==
    \/ \E t \in Tasks, op \in DirectOps : InvokeDirect(t, op)
    \/ \E t \in Tasks, op \in InitOps : InvokeWithInit(t, op)
    \/ SendCatch
    \/ \E owner \in Owners : Respond(owner)
    \/ ExecutorResume
    \/ ThenCallback
    \/ InitCacheRead
    \/ InitCacheDone
    \/ ThenReturned
    \/ CaughtResolved
    \/ InitRejected
    \/ CatchCallback
    \/ \E t \in Tasks : AfterInit(t)
    \/ \E t \in Tasks : HashDone(t)
    \/ \E t \in Tasks : SendSettled(t)
    \/ Tick
    \/ RuntimeUpgrade

SpecNode == InitNode /\ [][NextNode]_vars

\* The requests posted for a key, and those posted by a set of owners.
\* The posts of the log, each copy of a request counted.
Posts == UNION {{<<e, i>> : i \in 1..CopiesIn(e, rpcLog)} : e \in BagToSet(rpcLog)}
PostsOf(key) == {p \in Posts : p[1].key = key}
PostsBy(owners) == {p \in Posts : p[1].by \in owners}

\* C9 as stated: of two identical cacheable requests, the second started
\* while the first was unanswered, only one is posted to the node, and both
\* callers settle with the same result.
ConcurrentIdenticalRequestsOneRpc ==
    \A t \in Tasks : \A u \in tasks[t].overlaps :
        tasks[t].op = "getTransferFeeEstimate"
        => /\ Cardinality(PostsBy({t, u})) <= 1
           /\ (tasks[t].pc = "done" /\ tasks[u].pc = "done")
                => tasks[t].result = tasks[u].result

\* No public getRuntimeVersion() was called: every request for the runtime
\* version is the initialization's.
OnlyInitOperations == \A t \in Tasks : tasks[t].op # "getRuntimeVersion"

\* C10: the operations started on a fresh client share one initialization:
\* the executor of initApi is started at most once, the initialization
\* posts state_getMetadata and state_getRuntimeVersion at most once each
\* (and nothing else posts them, unless the application itself called
\* getRuntimeVersion), and an operation reads this.metadata only after the
\* executor of that initialization has finished.
OneSharedInitialization ==
    /\ init.count <= 1
    /\ Cardinality(PostsOf(MetadataKey)) <= 1
    /\ Cardinality(PostsBy({"initRuntimeVersion"})) <= 1
    /\ OnlyInitOperations => Cardinality(PostsOf(RuntimeVersionKey)) <= 1
    /\ \A t \in Tasks :
         tasks[t].readDuring # "none"
         => /\ init.count = 1
            /\ tasks[t].readDuring \in {"returned", "threw"}

\* Two operations were started while the initialization was in progress,
\* both have read the metadata it set and completed, and the metadata and
\* the runtime version were each requested once.
SharedInitializationReached ==
    \E t \in Tasks : \E u \in Tasks \ {t} :
        /\ tasks[t].pc = "done" /\ tasks[u].pc = "done"
        /\ tasks[t].awaits = "caught" /\ tasks[u].awaits = "caught"
        /\ tasks[t].readDuring = "returned" /\ tasks[u].readDuring = "returned"
        /\ client.metadata # undefined
        /\ OnlyInitOperations
        /\ Cardinality(PostsOf(MetadataKey)) = 1
        /\ Cardinality(PostsOf(RuntimeVersionKey)) = 1

\* The initialization has failed: the executor threw (the metadata could
\* not be fetched or decoded) or rejected its promise (no runtime version).
InitFailed == init.executor = "threw" \/ init.executorPromise = "rejected"

\* C11 as stated: a failed initialization is not cached; an operation
\* started after initApi has failed starts a new initialization (which
\* requests the metadata and the runtime version again).
FailedInitIsRetried ==
    [][\A t \in Tasks :
          (InitFailed /\ tasks[t].pc = "idle" /\ tasks'[t].pc = "awaitInit")
          => init'.count = init.count + 1]_vars

(***************************************************************************)
(* PolkadotNodeClient (src/src/protocols/polkadot/node/                    *)
(* PolkadotNodeClient.ts): the constructor, send and the methods that call *)
(* send directly.  The client has no initApi: its constructor (lines       *)
(* 82-93) reads the Babe_ExpectedBlockTime constant, which fetches the     *)
(* metadata.  The owner "initMetadata" is the send of that fetch.          *)
(* PolkadotNodeCache and this client's Metadata class are not part of the  *)
(* sources at hand; they are taken to behave as Cache and Metadata do.     *)
(***************************************************************************)
CACHE_EXPIRATION_TIME == 3000

\* The public methods the tasks call.  getTransferFeeEstimate (lines
\* 118-124), getSpecVersion (lines 165-171) and submitTransaction (lines
\* 428-433) call send directly; getExistentialDeposit (lines 101-106) goes
\* through getConstant and getBalance (lines 95-99) through getFromStorage,
\* and both of these through getFromMetadata.
PolkadotDirectOps == {"getTransferFeeEstimate", "getSpecVersion", "submitTransaction"}
PolkadotMetadataOps == {"getExistentialDeposit", "getBalance"}
PolkadotOps == PolkadotDirectOps \cup PolkadotMetadataOps

\* The send each method makes; none of them passes a config, so each has
\* send's default (getFromStorage's default is the same, line 511).
PolkadotRequestOf(op) ==
    CASE op = "getTransferFeeEstimate" ->
           [method |-> "payment_queryInfo", params |-> <<"aa">>,
            config |-> [allowCache |-> TRUE]]
      [] op = "getSpecVersion" ->
           [method |-> "state_getRuntimeVersion", params |-> <<>>,
            config |-> [allowCache |-> TRUE]]
      [] op = "submitTransaction" ->
           [method |-> "author_submitExtrinsic", params |-> <<"aa">>,
            config |-> [allowCache |-> TRUE]]
      [] op = "getBalance" ->
           [method |-> "state_getStorage", params |-> <<"26aab9">>,
            config |-> [allowCache |-> TRUE]]

\* const key = `${method}$${params.join('')}` (line 543)
polkadotKeyOf(method, params) == method \o "$" \o join(params)

\* PolkadotNodeClient.send (lines 537-552), its synchronous part.
polkadotSend(st, owner, method, params, config) ==
    sendAfterGet(st, owner, polkadotKeyOf(method, params), config,
                 cacheGet(polkadotKeyOf(method, params)))

\* fetchMetadata (lines 461-468), its synchronous part: a send that is
\* not to be cached, so its request is never registered as in flight.
fetchMetadata(st, owner) ==
    polkadotSend(st, owner, "state_getMetadata", <<>>, [allowCache |-> FALSE])

\* Metadata.decode as called by the result handler of fetchMetadata.
polkadotMetadataDecode(raw) == decode(None, raw)

\* What response.data.result may be when the node answers the request of
\* a key with a result.
PolkadotResultsOf(key) ==
    IF key = MetadataKey THEN MetadataBlobs
    ELSE IF key = RuntimeVersionKey THEN {[specVersion |-> runtime.specVersion]}
    ELSE {"0x01"}

(***************************************************************************)
(* The `then' of axios.post (lines 547-548): the result handler applied to *)
(* response.data.result, or that value itself when the send has no         *)
(* handler.  `answer' is Some(result), or None when the answer carries no  *)
(* result (a JSON-RPC error answer: response.data.error is not looked at): *)
(*   - fetchMetadata (line 465): result ? Metadata.decode(result) : null,  *)
(*     a decoding that throws rejects the promise;                         *)
(*   - getSpecVersion (line 168): result.specVersion, which throws on      *)
(*     undefined;                                                          *)
(*   - getTransferFeeEstimate (line 121) and getAccountInfo (line 479):    *)
(*     result ? <decoded> : null;                                          *)
(*   - submitTransaction: no handler, the value is undefined.              *)
(***************************************************************************)
polkadotResultHandler(key, answer) ==
    IF key = MetadataKey
    THEN IF ~IsSome(answer) THEN RpcResult(None)
         ELSE IF polkadotMetadataDecode(answer.v).tag = "thrown" THEN RpcError
         ELSE RpcResult(Some(polkadotMetadataDecode(answer.v).v))
    ELSE IF key = RuntimeVersionKey
    THEN IF ~IsSome(answer) THEN RpcError ELSE RpcResult(answer.v)
    ELSE IF key = polkadotKeyOf("author_submitExtrinsic", <<"aa">>)
    THEN IF ~IsSome(answer) THEN RpcResult("undefined") ELSE RpcResult(answer.v)
    ELSE IF ~IsSome(answer) THEN RpcResult("null") ELSE RpcResult(answer.v)

\* What the promise of a posted request may settle with: the request fails
\* (axios rejects), or the node answers, with or without a result.
PolkadotResponsesOf(key) ==
    {RpcError}
    \cup {polkadotResultHandler(key, answer) :
            answer \in {None} \cup {Some(r) : r \in PolkadotResultsOf(key)}}

\* The state the constructor leaves (lines 82-93): getConstant has called
\* getFromMetadata, which found no metadata and awaits fetchMetadata, whose
\* send has called cache.get and queued its catch callback.
InitPolkadot ==
    /\ pc = "client"
    /\ args = [op |-> "PolkadotNodeClient"]
    /\ result = Pending
    /\ now = 0
    /\ cache = [expirationTime |-> CACHE_EXPIRATION_TIME,
                promises |-> [k \in Keys |-> "none"],
                values |-> [k \in Keys |-> None]]
    /\ client = [metadata |-> undefined, runtimeVersion |-> undefined,
                 initApiPromise |-> "null"]
    /\ init = [IdleInit EXCEPT !.executor = "awaiting"]
    /\ sends = fetchMetadata([sends |-> [o \in Owners |-> IdleSend],
                              microtasks |-> <<>>], "initMetadata").sends
    /\ microtasks = fetchMetadata([sends |-> [o \in Owners |-> IdleSend],
                                   microtasks |-> <<>>], "initMetadata").microtasks
    /\ rpcs = [o \in Owners |-> RpcNone]
    /\ rpcLog = EmptyBag
    /\ tasks = [t \in Tasks |-> IdleTask]
    /\ runtime = InitialRuntime

\* The application calls getTransferFeeEstimate, getSpecVersion or
\* submitTransaction: the method calls send.
PolkadotInvoke(t, op) ==
    /\ tasks[t].pc = "idle"
    /\ MayStart(t)
    /\ LET st == polkadotSend([sends |-> sends, microtasks |-> microtasks], t,
                              PolkadotRequestOf(op).method, PolkadotRequestOf(op).params,
                              PolkadotRequestOf(op).config)
       IN /\ sends' = st.sends
          /\ microtasks' = st.microtasks
    /\ tasks' = [tasks EXCEPT ![t] =
                   [IdleTask EXCEPT !.op = op, !.pc = "awaitSend",
                                    !.overlaps = {u \in Tasks \ {t} :
                                                    /\ tasks[u].op = op
                                                    /\ tasks[u].pc = "awaitSend"
                                                    /\ SendOutcome(u).tag = "pending"}]]
    /\ UNCHANGED <<pc, args, result, runtime, now, cache, client, init, rpcs, rpcLog>>

\* What a method settles with when getFromMetadata rejects: getConstant
\* passes the rejection on (lines 435-438), getFromStorage catches it and
\* returns null (lines 531-534), of which getBalance makes BigNumber(0)
\* (line 98).
polkadotMetadataRejected(op) ==
    IF op = "getBalance" THEN RpcResult("0") ELSE RpcError

\* The task of method `op' after getFromMetadata has read this.metadata
\* and called the getter (lines 453-458): getExistentialDeposit has its
\* constant, getBalance goes on to `await this.storageUtils.getHash'.
polkadotMetadataGot(task, op) ==
    IF op = "getBalance"
    THEN [task EXCEPT !.op = op, !.pc = "awaitHash"]
    ELSE [task EXCEPT !.op = op, !.pc = "done", !.result = RpcResult("constant")]

(***************************************************************************)
(* The application calls getExistentialDeposit or getBalance: the method   *)
(* reaches getFromMetadata (lines 444-459), which calls fetchMetadata when *)
(* this.metadata is unset (whether or not the constructor's request is     *)
(* still unanswered) and reads the metadata at once when it is set.        *)
(***************************************************************************)
PolkadotInvokeFromMetadata(t, op) ==
    /\ tasks[t].pc = "idle"
    /\ MayStart(t)
    /\ IF client.metadata = undefined
       THEN /\ LET st == fetchMetadata([sends |-> sends, microtasks |-> microtasks], t)
               IN /\ sends' = st.sends
                  /\ microtasks' = st.microtasks
            /\ tasks' = [tasks EXCEPT ![t] =
                           [IdleTask EXCEPT !.op = op, !.pc = "awaitFetch"]]
       ELSE /\ tasks' = [tasks EXCEPT ![t] = polkadotMetadataGot(IdleTask, op)]
            /\ UNCHANGED <<sends, microtasks>>
    /\ UNCHANGED <<pc, args, result, runtime, now, cache, client, init, rpcs, rpcLog>>

\* The callback of cache.get(key).catch (lines 546-551): axios.post, then
\* cache.save of the request's promise.
PolkadotSendCatch == SendCatch

\* The request of `owner' settles (lines 547-548): it fails, or the node
\* answers it and the result handler runs.  cache.save's promise settles
\* with it: a resolved value, null and undefined included, is cached when
\* the send allows it.  A rejection runs the catch callbacks (line 546) of
\* the sends that were handed this promise by cache.get.
PolkadotRespond(owner) ==
    /\ microtasks = <<>>
    /\ rpcs[owner].tag = "pending"
    /\ \E response \in PolkadotResponsesOf(sends[owner].key) :
         /\ rpcs' = [rpcs EXCEPT ![owner] = response]
         /\ cache' = cacheSettled(sends[owner].key, owner, response, sends[owner].allowCache)
         /\ sends' = sendsAfterResponse(owner, response)
         /\ microtasks' = IF response.tag = "error" THEN sends[owner].waiters ELSE <<>>
    /\ UNCHANGED <<pc, args, result, runtime, now, client, init, rpcLog, tasks>>

\* this.metadata after `this.metadata = await this.send(...)' (line 462)
\* when the send resolved with `value': the decoded metadata, or null.
polkadotMetadataOf(value) == IF IsSome(value) THEN Defined(value.v) ELSE undefined

(***************************************************************************)
(* The constructor's chain, one action for each of its runs.               *)
(* ConstructorFetchResume: fetchMetadata resumes when its send has settled *)
(* and stores what it resolved with (line 462); a rejection rejects the    *)
(* chain.                                                                  *)
(***************************************************************************)
ConstructorFetchResume ==
    /\ init.executor = "awaiting"
    /\ SendOutcome("initMetadata").tag \in {"result", "error"}
    /\ IF SendOutcome("initMetadata").tag = "error"
       THEN /\ init' = [init EXCEPT !.executor = "threw"]
            /\ UNCHANGED client
       ELSE /\ init' = [init EXCEPT !.executor = "fetched"]
            /\ client' = [client EXCEPT !.metadata =
                            polkadotMetadataOf(SendOutcome("initMetadata").v)]
    /\ UNCHANGED <<pc, args, result, runtime, now, cache, sends, rpcs, rpcLog,
                   microtasks, tasks>>

\* getFromMetadata resumes after `await this.fetchMetadata()' (lines
\* 449-458) and getConstant decodes the constant (lines 436-437, 86): the
\* chain rejects when this.metadata is unset at that moment.
ConstructorGetConstant ==
    /\ init.executor = "fetched"
    /\ init' = IF client.metadata = undefined
               THEN [init EXCEPT !.executor = "threw"]
               ELSE [init EXCEPT !.executor = "read",
                                 !.blockTime = Some(client.metadata.v.expectedBlockTime)]
    /\ UNCHANGED <<pc, args, result, runtime, now, cache, client, sends, rpcs, rpcLog,
                   microtasks, tasks>>

\* The constructor's `.then' callback (lines 87-91): the expiration time
\* is set when the block time is truthy.
ConstructorThen ==
    /\ init.executor = "read"
    /\ init' = [init EXCEPT !.executor = "returned"]
    /\ cache' = IF init.blockTime.v # 0
                THEN [cache EXCEPT !.expirationTime = init.blockTime.v \div 3]
                ELSE cache
    /\ UNCHANGED <<pc, args, result, runtime, now, client, sends, rpcs, rpcLog,
                   microtasks, tasks>>

\* A task's fetchMetadata resumes when its send has settled (line 462):
\* it stores what the send resolved with, null included; a rejection
\* rejects getFromMetadata.
PolkadotFetchResume(t) ==
    /\ tasks[t].pc = "awaitFetch"
    /\ SendOutcome(t).tag \in {"result", "error"}
    /\ IF SendOutcome(t).tag = "error"
       THEN /\ tasks' = [tasks EXCEPT ![t].pc = "done",
                                      ![t].result = polkadotMetadataRejected(tasks[t].op)]
            /\ UNCHANGED client
       ELSE /\ tasks' = [tasks EXCEPT ![t].pc = "awaitMetadata"]
            /\ client' = [client EXCEPT !.metadata = polkadotMetadataOf(SendOutcome(t).v)]
    /\ UNCHANGED <<pc, args, result, runtime, now, cache, init, sends, rpcs, rpcLog,
                   microtasks>>

\* A task's getFromMetadata resumes after `await this.fetchMetadata()'
\* (lines 449-458): 'Could not fetch metadata' when this.metadata is unset
\* at that moment.
PolkadotGetFromMetadata(t) ==
    /\ tasks[t].pc = "awaitMetadata"
    /\ tasks' = [tasks EXCEPT ![t] =
                   IF client.metadata = undefined
                   THEN [@ EXCEPT !.pc = "done",
                                  !.result = polkadotMetadataRejected(tasks[t].op)]
                   ELSE polkadotMetadataGot(@, tasks[t].op)]
    /\ UNCHANGED <<pc, args, result, runtime, now, cache, client, init, sends, rpcs,
                   rpcLog, microtasks>>

\* getFromStorage resumes after `await this.storageUtils.getHash(...)' and
\* calls send (lines 524-529).
PolkadotHashDone(t) ==
    /\ tasks[t].pc = "awaitHash"
    /\ tasks' = [tasks EXCEPT ![t].pc = "awaitSend"]
    /\ LET st == polkadotSend([sends |-> sends, microtasks |-> microtasks], t,
                              PolkadotRequestOf(tasks[t].op).method,
                              PolkadotRequestOf(tasks[t].op).params,
                              PolkadotRequestOf(tasks[t].op).config)
       IN /\ sends' = st.sends
          /\ microtasks' = st.microtasks
    /\ UNCHANGED <<pc, args, result, runtime, now, cache, client, init, rpcs, rpcLog>>

\* What a method makes of the settled promise of its send: getBalance
\* turns a null account into BigNumber(0) (line 98) and passes a rejection
\* on (the send is returned from inside the try, not awaited there, line
\* 524); the other methods return the promise of send.
polkadotTaskResult(op, outcome) ==
    IF op = "getBalance" /\ outcome.tag = "result"
    THEN IF outcome.v = "null" THEN RpcResult("0") ELSE outcome
    ELSE outcome

\* The promise of a task's send has settled: the task settles with it.
PolkadotSendSettled(t) ==
    /\ tasks[t].pc = "awaitSend"
    /\ SendOutcome(t).tag \in {"result", "error"}
    /\ tasks' = [tasks EXCEPT ![t].pc = "done",
                              ![t].result = polkadotTaskResult(tasks[t].op, SendOutcome(t))]
    /\ UNCHANGED <<pc, args, result, runtime, now, cache, client, init, sends, rpcs, rpcLog,
                   microtasks>>

\* A promise continuation of the client is ready to run: one of the steps
\* ConstructorFetchResume, ConstructorGetConstant, ConstructorThen,
\* PolkadotFetchResume, PolkadotGetFromMetadata and PolkadotSendSettled is
\* enabled.  None of them reads the clock.
PolkadotContinuationReady ==
    \/ init.executor = "awaiting" /\ SendOutcome("initMetadata").tag \in {"result", "error"}
    \/ init.executor \in {"fetched", "read"}
    \/ \E t \in Tasks : /\ tasks[t].pc \in {"awaitFetch", "awaitSend"}
                         /\ SendOutcome(t).tag \in {"result", "error"}
    \/ \E t \in Tasks : tasks[t].pc = "awaitMetadata"

\* Time passes, by one initial cache lifetime.  The clock is read only to
\* date and to test cached values, so a tick is taken only while it can
\* change a later cache.get: while a cached value is valid and a task has
\* a call of send ahead of it.  The ready continuations, which take no
\* time on that scale, have run before.
PolkadotTick ==
    /\ microtasks = <<>>
    /\ ~PolkadotContinuationReady
    /\ \E k \in Keys : IsSome(cache.values[k]) /\ cache.values[k].v.validUntil > now
    /\ \E t \in Tasks : tasks[t].pc \in {"idle", "awaitFetch", "awaitHash"}
    /\ now < MaxTicks * CACHE_EXPIRATION_TIME
    /\ now' = now + CACHE_EXPIRATION_TIME
    /\ UNCHANGED <<pc, args, result, runtime, cache, client, init, sends, rpcs, rpcLog,
                   microtasks, tasks>>

NextPolkadot ==
    \/ \E t \in Tasks, op \in PolkadotDirectOps : PolkadotInvoke(t, op)
    \/ \E t \in Tasks, op \in PolkadotMetadataOps : PolkadotInvokeFromMetadata(t, op)
    \/ PolkadotSendCatch
    \/ \E owner \in Owners : PolkadotRespond(owner)
    \/ ConstructorFetchResume
    \/ ConstructorGetConstant
    \/ ConstructorThen
    \/ \E t \in Tasks : PolkadotFetchResume(t)
    \/ \E t \in Tasks : PolkadotGetFromMetadata(t)
    \/ \E t \in Tasks : PolkadotHashDone(t)
    \/ \E t \in Tasks : PolkadotSendSettled(t)
    \/ PolkadotTick

SpecPolkadot == InitPolkadot /\ [][NextPolkadot]_vars

\* C12 as stated, for PolkadotNodeClient: submitTransaction is never served
\* from the response cache: of two submitTransaction calls with the same
\* blob, neither started while the other was unanswered, each posts its own
\* author_submitExtrinsic request.
SubmitTransactionEachPosted ==
    \A t \in Tasks : \A u \in Tasks \ {t} :
        (/\ tasks[t].op = "submitTransaction" /\ tasks[u].op = "submitTransaction"
         /\ u \notin tasks[t].overlaps /\ t \notin tasks[u].overlaps)
        => sends[t].state # "cached" /\ sends[u].state # "cached"

\* C13 as stated: after a successful initialization the cache expiration
\* time is floor(blockTime / 3) where that is positive, and is never below
\* a fixed positive minimum, so it is positive.
ExpirationTimeAtLeastMinimum ==
    InitSucceeded
    => /\ cache.expirationTime > 0
       /\ client.metadata.v.expectedBlockTime \div 3 > 0
            => cache.expirationTime = client.metadata.v.expectedBlockTime \div 3

\* C14 as stated, for PolkadotNodeClient: constructing the client issues no
\* request: as long as no method of the client has been called, nothing has
\* been posted to the node.
ConstructionIssuesNoRpc ==
    (\A t \in Tasks : tasks[t].pc = "idle") => rpcLog = EmptyBag

\* C15 as stated: after the node has begun to report a new runtime spec
\* version, an operation issued after the change reads metadata that was
\* rebuilt after the change: when it reads this.metadata, the client's
\* stored runtime version is the one the node reports.
RuntimeUpgradeRebuildsMetadata ==
    [][\A t \in runtime.since :
          (tasks[t].readDuring = "none" /\ tasks'[t].readDuring # "none")
          => client.runtimeVersion = Defined(runtime.specVersion)]_vars

(***************************************************************************)
(* Metadata.decode on encoded metadata (part_002:385-411).  The encoded    *)
(* metadata is a sequence of bytes: decodeNextInt(32) reads the first four *)
(* as a little-endian integer, decodeNextInt(8) the fifth.  SCALEDecoder   *)
(* is not part of the sources at hand; decodeNextInt follows the SCALE     *)
(* encoding of fixed-width integers.                                       *)
(***************************************************************************)
\* Bound: the metadata versions tried are 10..MaxMetadataVersion.
MaxMetadataVersion == 13

\* The bytes of 'meta' (6d 65 74 61), and the bytes tried in their place.
MetaBytes == <<109, 101, 116, 97>>
MagicBytes == {0, 97, 101, 109, 116}

RECURSIVE decodeNextInt(_, _, _)
decodeNextInt(bytes, offset, bits) ==
    IF bits = 0 THEN 0
    ELSE bytes[offset + 1] + 256 * decodeNextInt(bytes, offset + 1, bits - 8)

\* What decode reads from the encoded metadata (lines 389 and 392).
decodedInts(bytes) ==
    [magicNumber |-> decodeNextInt(bytes, 0, 32), version |-> decodeNextInt(bytes, 4, 8),
     expectedBlockTime |-> 6000]

MetadataArgs ==
    {[raw |-> <<b1, b2, b3, b4, version>>] :
       b1 \in MagicBytes, b2 \in MagicBytes, b3 \in MagicBytes, b4 \in MagicBytes,
       version \in 10..MaxMetadataVersion}

InitMetadata ==
    /\ pc = "call"
    /\ args \in MetadataArgs
    /\ result = Pending
    /\ NoClient

CallDecode ==
    /\ pc = "call"
    /\ pc' = "done"
    /\ result' = decode(None, decodedInts(args.raw))
    /\ UNCHANGED <<args, nodeVars>>

NextMetadata == CallDecode

SpecMetadata == InitMetadata /\ [][NextMetadata]_vars

\* C16: Metadata.decode throws the invalid-format error (InvalidValueError)
\* when the first four bytes are not 'meta', and, the marker being right,
\* the unsupported-version error (UnsupportedError) when the version byte
\* is neither 11 nor 12; in both cases nothing is returned.
DecodeRejectsMagicAndVersion ==
    pc = "done"
    => /\ SubSeq(args.raw, 1, 4) # MetaBytes
            => result = [tag |-> "thrown", error |-> "InvalidValueError"]
       /\ (SubSeq(args.raw, 1, 4) = MetaBytes /\ args.raw[5] \notin {11, 12})
            => result = [tag |-> "thrown", error |-> "UnsupportedError"]

\* decode has thrown the unsupported-version error on metadata that starts
\* with 'meta'.
DecodeUnsupportedVersionReached ==
    /\ pc = "done"
    /\ SubSeq(args.raw, 1, 4) = MetaBytes
    /\ args.raw[5] = 13
    /\ result = [tag |-> "thrown", error |-> "UnsupportedError"]

\* The sum of the unlocking chunks whose unlock era is not after the active
\* era.
RECURSIVE WithdrawableFunds(_, _)
WithdrawableFunds(unlocking, activeEraIndex) ==
    IF unlocking = <<>> THEN 0
    ELSE (IF unlocking[1].era <= activeEraIndex THEN unlocking[1].value ELSE 0)
         + WithdrawableFunds(Tail(unlocking), activeEraIndex)

\* getNominatorDetails has resolved with the election closed.
NominatorDetailsElectionClosed ==
    /\ pc = "done" /\ args.op = "getNominatorDetails" /\ result.tag = "resolved"
    /\ args.chain.electionStatus # Some("OPEN")

\* The types of the actions a resolved getNominatorDetails offers.
DetailsOfferedTypes ==
    {result.v.availableActions.v[i].type : i \in 1..Len(result.v.availableActions.v)}

\* C23: with the election closed, WITHDRAW_UNBONDED is offered if and only
\* if the ledger's unlocking chunks whose unlock era is not after the
\* active era sum to more than zero, whatever the bonded, nominating and
\* unbonding state.
WithdrawIffWithdrawableFunds ==
    NominatorDetailsElectionClosed
    => ("WITHDRAW_UNBONDED" \in DetailsOfferedTypes
        <=> /\ IsSome(args.chain.ledger)
            /\ WithdrawableFunds(args.chain.ledger.v.unlocking,
                                 args.chain.activeEra.v.index) > 0)

\* WITHDRAW_UNBONDED is offered to an account without active stake whose
\* only chunk unlocks in the active era.
WithdrawAtActiveEraReached ==
    /\ NominatorDetailsElectionClosed
    /\ IsSome(args.chain.ledger) /\ args.chain.ledger.v.active = 0
    /\ Len(args.chain.ledger.v.unlocking) = 1
    /\ args.chain.ledger.v.unlocking[1].era = args.chain.activeEra.v.index
    /\ "WITHDRAW_UNBONDED" \in DetailsOfferedTypes

(***************************************************************************)
(* getUnlockingDetails on its own (SubstrateAccountController.ts:290-314). *)
(***************************************************************************)
\* Bounds: the number of unlocking chunks of a ledger and a chunk's value.
MaxChunks == 2
MaxChunkValue == 2

\* The chunks unlock in the era before the active era (5), in it or after.
UnlockChunks == [value : 1..MaxChunkValue, era : 4..6]

UnlockingArgs ==
    [op : {"getUnlockingDetails"},
     unlocking : SeqsUpTo(UnlockChunks, MaxChunks),
     activeEra : {[index |-> 5, start |-> None], [index |-> 5, start |-> Some(1000)]},
     expectedEraDuration : {None, Some(10)}]

InitUnlocking ==
    /\ pc = "call"
    /\ args \in UnlockingArgs
    /\ result = Pending
    /\ NoClient

CallGetUnlockingDetails ==
    /\ pc = "call"
    /\ args.op = "getUnlockingDetails"
    /\ result' = Resolved(getUnlockingDetails(args.unlocking, args.activeEra,
                                              args.expectedEraDuration))
    /\ pc' = "done"
    /\ UNCHANGED <<args, nodeVars>>

NextUnlocking == CallGetUnlockingDetails

SpecUnlocking == InitUnlocking /\ [][NextUnlocking]_vars

\* The values of the chunks, and the chunks that unlock after an era.
ChunkValues(chunks) == [i \in 1..Len(chunks) |-> chunks[i].value]
ChunksAfter(unlocking, activeEraIndex) ==
    SelectSeq(unlocking, LAMBDA chunk : chunk.era > activeEraIndex)

\* C24: getUnlockingDetails reports as locked exactly the chunks whose
\* unlock era is strictly greater than the active era index, adds the
\* others to `unlocked', and the locked values plus `unlocked' sum to the
\* sum of all the chunks' values.
UnlockingPartitionExact ==
    (pc = "done" /\ args.op = "getUnlockingDetails")
    => /\ ChunkValues(result.v.locked)
            = ChunkValues(ChunksAfter(args.unlocking, args.activeEra.index))
       /\ result.v.unlocked = WithdrawableFunds(args.unlocking, args.activeEra.index)
       /\ SumSeq(ChunkValues(result.v.locked)) + result.v.unlocked
            = SumSeq(ChunkValues(args.unlocking))

\* A ledger with a chunk that unlocks in the active era and one that
\* unlocks after it: the first is unlocked, the second locked.
UnlockingBoundaryReached ==
    /\ pc = "done" /\ args.op = "getUnlockingDetails"
    /\ Len(args.unlocking) = 2
    /\ args.unlocking[1].era = args.activeEra.index
    /\ args.unlocking[2].era > args.activeEra.index
    /\ Len(result.v.locked) = 1
    /\ result.v.unlocked = args.unlocking[1].value

(***************************************************************************)
(* SubstrateNodeClient under the scheduling the event loop and the claim's *)
(* premise give: a queued callback runs, the continuation of a settled     *)
(* await runs, and every posted request is answered.                       *)
(***************************************************************************)
FairnessNode ==
    /\ WF_vars(SendCatch)
    /\ \A owner \in Owners : WF_vars(Respond(owner))
    /\ WF_vars(ExecutorResume)
    /\ WF_vars(ThenCallback)
    /\ WF_vars(InitCacheRead)
    /\ WF_vars(InitCacheDone)
    /\ WF_vars(ThenReturned)
    /\ WF_vars(CaughtResolved)
    /\ WF_vars(InitRejected)
    /\ WF_vars(CatchCallback)
    /\ \A t \in Tasks : WF_vars(AfterInit(t))
    /\ \A t \in Tasks : WF_vars(HashDone(t))
    /\ \A t \in Tasks : WF_vars(SendSettled(t))

SpecNodeFair == SpecNode /\ FairnessNode

\* C25 as stated: every operation that waits on initApi eventually stops
\* waiting (it goes on to its request or settles), provided every request
\* is answered, also when state_getMetadata fails or the metadata cannot be
\* decoded.
InitWaitersEventuallySettle ==
    \A t \in Tasks : (tasks[t].pc = "awaitInit") ~> (tasks[t].pc # "awaitInit")

\* The executor of initApi has run on without a runtime version: the
\* state_getRuntimeVersion request failed (getRuntimeVersion gave null).
RuntimeVersionUnavailable ==
    /\ init.executor \in {"returned", "threw"}
    /\ SendOutcome("initRuntimeVersion").tag = "error"

\* C26 as stated: when the runtime version cannot be fetched during the
\* initialization, metadata and runtimeVersion stay unset and no operation
\* that awaited the initialization goes on to its request or settles with
\* a result.
NoRuntimeVersionFailsEveryCaller ==
    RuntimeVersionUnavailable
    => /\ client.metadata = undefined
       /\ client.runtimeVersion = undefined
       /\ \A t \in Tasks :
            tasks[t].op \in InitOps
            => /\ tasks[t].pc \notin {"awaitHash", "awaitSend"}
               /\ tasks[t].pc = "done" => tasks[t].result.tag = "error"

(***************************************************************************)
(* prepareDelegatorActionFromPublicKey: the action types its switch        *)
(* handles and the data fields each case passes to assertFields.           *)
(***************************************************************************)
\* The cases of the switch that prepare transactions; the remaining cases
\* and the default reject with 'Unsupported delegator action.'.
supportedDelegatorActions ==
    { "BOND_NOMINATE", "REBOND_NOMINATE", "NOMINATE", "CANCEL_NOMINATION",
      "CHANGE_NOMINATION", "UNBOND", "REBOND", "BOND_EXTRA", "REBOND_EXTRA",
      "WITHDRAW_UNBONDED" }

\* The switch with an assertFields(..., 'value') in the CANCEL_NOMINATION
\* and WITHDRAW_UNBONDED cases, which assert nothing in the source.
assertedFieldsEveryCase(type) ==
    CASE type = "BOND_NOMINATE" -> {"targets", "value", "payee"}
      [] type = "REBOND_NOMINATE" -> {"targets", "value"}
      [] type \in {"NOMINATE", "CHANGE_NOMINATION"} -> {"targets"}
      [] OTHER -> {"value"}

\* The field names handed to assertFields in the case of `type'.
assertedFields(type) ==
    CASE type = "BOND_NOMINATE" -> {"targets", "value", "payee"}
      [] type = "REBOND_NOMINATE" -> {"targets", "value"}
      [] type \in {"NOMINATE", "CHANGE_NOMINATION"} -> {"targets"}
      [] type \in {"UNBOND", "REBOND", "BOND_EXTRA", "REBOND_EXTRA"} -> {"value"}
      [] OTHER -> {}

\* The outcome of prepareDelegatorActionFromPublicKey(publicKey, type, data)
\* for a data object holding exactly the fields `fields'.
prepareDelegatorActionFromPublicKey(type, fields) ==
    IF type \notin supportedDelegatorActions THEN "unsupported"
    ELSE IF ~(assertedFields(type) \subseteq fields) THEN "missingField"
    ELSE "prepared"

\* C28: getAvailableStakingActions never offers REBOND,
\* CHANGE_REWARD_DESTINATION or CHANGE_CONTROLLER, although
\* prepareDelegatorActionFromPublicKey accepts REBOND; every action it
\* offers is prepared by prepareDelegatorActionFromPublicKey when the data
\* holds the argument names listed for it: the type is supported and no
\* asserted field is missing.
OfferedActionsArePreparable ==
    /\ prepareDelegatorActionFromPublicKey("REBOND", {"value"}) = "prepared"
    /\ (pc = "done" /\ args.op = "getAvailableStakingActions" /\ result.tag = "resolved")
       => /\ OfferedTypes \cap {"REBOND", "CHANGE_REWARD_DESTINATION", "CHANGE_CONTROLLER"} = {}
          /\ \A i \in 1..Len(result.v) :
               prepareDelegatorActionFromPublicKey(result.v[i].type, Range(result.v[i].args)) = "prepared"

\* An unbonding account with withdrawable funds is offered REBOND_NOMINATE,
\* which asserts two fields, next to WITHDRAW_UNBONDED, which lists none.
RebondNominateAndWithdrawOfferedReached ==
    /\ pc = "done" /\ args.op = "getAvailableStakingActions" /\ result.tag = "resolved"
    /\ {"REBOND_NOMINATE", "WITHDRAW_UNBONDED"} \subseteq OfferedTypes
    /\ \E i \in 1..Len(result.v) : result.v[i].type = "WITHDRAW_UNBONDED" /\ result.v[i].args = <<>>

(***************************************************************************)
(* prepareRebondExtra and prepareRebondNominate: the transaction configs   *)
(* handed to prepareSubmittableTransactions.                               *)
(***************************************************************************)
MaxRebondValue == 5

\* getUnlockingBalance: the sum of the ledger's unlocking chunk values, zero
\* when the account has no ledger.
getUnlockingBalance(stakingDetails) ==
    IF IsSome(stakingDetails)
    THEN SumSeq([i \in 1..Len(stakingDetails.v.unlocking) |-> stakingDetails.v.unlocking[i].value])
    ELSE 0

RebondConfig(value) == [type |-> "REBOND", args |-> [value |-> value]]
BondExtraConfig(value) == [type |-> "BOND_EXTRA", args |-> [value |-> value]]
\* A single target given as a string is wrapped into a list.
NominateConfig(targets) ==
    [type |-> "NOMINATE",
     args |-> [targets |-> IF targets.tag = "string" THEN <<targets.v>> ELSE targets.v]]

\* The configs of prepareRebondExtra with `gte' in place of `gt'.
rebondExtraConfigsGte(toDelegate, lockedBalance) ==
    IF toDelegate >= lockedBalance
    THEN << RebondConfig(lockedBalance), BondExtraConfig(toDelegate - lockedBalance) >>
    ELSE << RebondConfig(toDelegate) >>

\* The configs of prepareRebondExtra.
rebondExtraConfigs(toDelegate, lockedBalance) ==
    IF toDelegate > lockedBalance
    THEN << RebondConfig(lockedBalance), BondExtraConfig(toDelegate - lockedBalance) >>
    ELSE << RebondConfig(toDelegate) >>

\* The configs of prepareRebondNominate: its own copy of the split, then the
\* NOMINATE config pushed last.
rebondNominateConfigs(toDelegate, lockedBalance, targets) ==
    Append(IF toDelegate > lockedBalance
           THEN << RebondConfig(lockedBalance), BondExtraConfig(toDelegate - lockedBalance) >>
           ELSE << RebondConfig(toDelegate) >>,
           NominateConfig(targets))

\* Promise.all of getTransferableBalance and getUnlockingBalance: a failed
\* balance request rejects the whole call.
prepareRebondExtra(transferableBalance, stakingDetails, value) ==
    IF IsFailed(transferableBalance) \/ IsFailed(stakingDetails)
    THEN Rejected("balance")
    ELSE Resolved([available |-> transferableBalance.v,
                   configs |-> rebondExtraConfigs(value, getUnlockingBalance(stakingDetails))])

prepareRebondNominate(transferableBalance, stakingDetails, targets, value) ==
    IF IsFailed(transferableBalance) \/ IsFailed(stakingDetails)
    THEN Rejected("balance")
    ELSE Resolved([available |-> transferableBalance.v,
                   configs |-> rebondNominateConfigs(value, getUnlockingBalance(stakingDetails),
                                                     targets)])

RebondLedgers ==
    {None, Failed} \cup
    {Some([unlocking |-> s]) : s \in SeqsUpTo([value : 1..MaxChunkValue, era : {5}], MaxChunks)}

RebondTargets ==
    {[tag |-> "string", v |-> "V1"], [tag |-> "list", v |-> <<"V1">>],
     [tag |-> "list", v |-> <<"V1", "V2">>]}

RebondArgs ==
    [op : {"prepareRebondExtra"}, transferableBalance : {Some(1), Failed},
     stakingDetails : RebondLedgers, value : 0..MaxRebondValue]
    \cup
    [op : {"prepareRebondNominate"}, transferableBalance : {Some(1), Failed},
     stakingDetails : RebondLedgers, targets : RebondTargets, value : 0..MaxRebondValue]

InitRebond ==
    /\ pc = "call"
    /\ args \in RebondArgs
    /\ result = Pending
    /\ NoClient

CallPrepareRebondExtra ==
    /\ pc = "call"
    /\ args.op = "prepareRebondExtra"
    /\ result' = prepareRebondExtra(args.transferableBalance, args.stakingDetails, args.value)
    /\ pc' = "done"
    /\ UNCHANGED <<args, nodeVars>>

CallPrepareRebondNominate ==
    /\ pc = "call"
    /\ args.op = "prepareRebondNominate"
    /\ result' = prepareRebondNominate(args.transferableBalance, args.stakingDetails,
                                       args.targets, args.value)
    /\ pc' = "done"
    /\ UNCHANGED <<args, nodeVars>>

NextRebond == CallPrepareRebondExtra \/ CallPrepareRebondNominate

SpecRebond == InitRebond /\ [][NextRebond]_vars

Min(a, b) == IF a < b THEN a ELSE b

\* The configs of the split: everything before a trailing NOMINATE.
SplitConfigs(configs) == SelectSeq(configs, LAMBDA c : c.type # "NOMINATE")

\* C29: with v the requested value and u the unlocking balance, the first
\* transaction is a REBOND of min(v, u), which never exceeds u; a BOND_EXTRA
\* of exactly v - u follows it when and only when v > u; the amounts sum to
\* v; and prepareRebondNominate puts one NOMINATE last, prepareRebondExtra
\* none.
RebondSplitExact ==
    (pc = "done" /\ args.op \in {"prepareRebondExtra", "prepareRebondNominate"}
       /\ result.tag = "resolved")
    => LET v == args.value
           u == getUnlockingBalance(args.stakingDetails)
           configs == result.v.configs
           split == SplitConfigs(configs)
       IN /\ Len(split) = (IF v > u THEN 2 ELSE 1)
          /\ configs[1] = RebondConfig(Min(v, u))
          /\ configs[1].args.value <= u
          /\ v > u => configs[2] = BondExtraConfig(v - u)
          /\ SumSeq([i \in 1..Len(split) |-> split[i].args.value]) = v
          /\ IF args.op = "prepareRebondNominate"
             THEN /\ Len(configs) = Len(split) + 1
                  /\ configs[Len(configs)].type = "NOMINATE"
             ELSE configs = split

\* prepareRebondExtra is asked for exactly the unlocking balance of an
\* account with two unlocking chunks: the boundary between the two branches.
RebondExactlyUnlockingReached ==
    /\ pc = "done" /\ args.op = "prepareRebondExtra" /\ result.tag = "resolved"
    /\ IsSome(args.stakingDetails)
    /\ Len(args.stakingDetails.v.unlocking) = 2
    /\ args.value = getUnlockingBalance(args.stakingDetails)
    /\ Len(result.v.configs) = 1

(***************************************************************************)
(* shuffledArray (utils/array.ts).  A slot of `new Array(n)' that was      *)
(* never assigned reads as undefined.                                      *)
(***************************************************************************)
MaxArrayLen == 3
ArrayElements == {"a", "b", "c"}

ShuffleArgs == [op : {"shuffledArray"}, array : SeqsUpTo(ArrayElements, MaxArrayLen)]

InitShuffle ==
    /\ pc = "call"
    /\ args \in ShuffleArgs
    /\ result = Pending
    /\ NoClient

\* const shuffled = new Array(array.length); let i = array.length - 1.
\* Indices are zero-based as in the source; slot k is shuffled[k + 1] here.
ShuffleEnter ==
    /\ pc = "call"
    /\ args.op = "shuffledArray"
    /\ result' = [tag |-> "running",
                  shuffled |-> [k \in 1..Len(args.array) |-> undefined],
                  i |-> Len(args.array) - 1]
    /\ pc' = "loop"
    /\ UNCHANGED <<args, nodeVars>>

\* One iteration: j = Math.floor(Math.random() * (i + 1)) is any index in
\* 0..i; shuffled[i] = array[j], then shuffled[j] = array[i]; i--.
ShuffleStep ==
    /\ pc = "loop"
    /\ result.i > 0
    /\ \E j \in 0..result.i :
         LET i == result.i
             first == [result.shuffled EXCEPT ![i + 1] = Defined(args.array[j + 1])]
             second == [first EXCEPT ![j + 1] = Defined(args.array[i + 1])]
         IN result' = [result EXCEPT !.shuffled = second, !.i = i - 1]
    /\ UNCHANGED <<pc, args, nodeVars>>

\* The loop condition i > 0 fails: return shuffled.
ShuffleReturn ==
    /\ pc = "loop"
    /\ result.i <= 0
    /\ result' = Resolved(result.shuffled)
    /\ pc' = "done"
    /\ UNCHANGED <<args, nodeVars>>

NextShuffle == ShuffleEnter \/ ShuffleStep \/ ShuffleReturn

SpecShuffle == InitShuffle /\ [][NextShuffle]_vars

Occurrences(s, x) == Cardinality({k \in 1..Len(s) : s[k] = x})

\* C30: the array returned by shuffledArray is a permutation of its input:
\* it has the same length, no slot is undefined, and every element occurs
\* in it as often as in the input.
ShuffledIsPermutation ==
    (pc = "done" /\ args.op = "shuffledArray" /\ result.tag = "resolved")
    => /\ Len(result.v) = Len(args.array)
       /\ \A k \in 1..Len(result.v) : result.v[k] # undefined
       /\ \A x \in ArrayElements :
            Occurrences(result.v, Defined(x)) = Occurrences(args.array, x)

====
